---- MODULE Spec2Model ----
(***************************************************************************)
(* Model of backend/main.py: the text segmentation and prompt-synthesis    *)
(* pipeline of the long-text-to-images service.                            *)
(*                                                                         *)
(* A Python str is modelled as a sequence of Unicode code points           *)
(* (integers), so len(), slicing, strip(), split(), "in" and the regular   *)
(* expressions are computed character by character as Python computes      *)
(* them.  Every string literal of the source appears below as the tuple of *)
(* its code points, with the literal itself in the comment above it.       *)
(***************************************************************************)
EXTENDS Integers, Sequences, FiniteSets, TLC

VARIABLES
    pc,            \* position of the modelled call / request
    text,          \* the input text (request.text, or the function argument)
    text_type,     \* the text-type tag
    style_prompt,  \* the style hint (request.style_prompt, or the function argument)
    max_segments,  \* request.max_segments (0 stands for None / 0, both falsy)
    client,        \* TRUE when the module-level LLM client is configured
    service_type,  \* ImageGenerationService.service_type
    started,       \* the steps of analyze_text_with_doubao started so far
    seg_result,    \* outcome of _smart_segment_text: [raised, value]
    prompt_result, \* string returned by _generate_xiaohongshu_prompt
    llm,           \* what the LLM collaborator answered for this request
    segments,      \* list of TextSegment (returned by the analysis, or of the image request)
    response,      \* the HTTP response of /api/analyze-text
    images,        \* GeneratedImage list built by generate_images_with_seedream
    sent_prompts,  \* prompts handed to the image backend, in call order
    content_analysis, \* the content analysis handed to _determine_unified_style
    unified_style, \* template name returned by _determine_unified_style
    demo_log,      \* the calls of _generate_demo_image so far: [prompt, segment_id, url]
    backend_outcomes, \* per processed segment, what the image backend did
    compose_outcomes, \* per composed image, the step of compose_image_text that failed
    truncate_max_length, \* the max_length argument of _truncate_text
    truncated,     \* string returned by _truncate_text
    theme_analysis \* dict returned by _analyze_text_content

vars == <<pc, text, text_type, style_prompt, max_segments, client, service_type,
          started, seg_result, prompt_result, llm, segments, response, images,
          sent_prompts,
          content_analysis, unified_style, demo_log, backend_outcomes,
          compose_outcomes, truncate_max_length, truncated, theme_analysis>>

-----------------------------------------------------------------------------
(* Bounds of the model. *)

\* longest text enumerated character by character
MaxShortLen == 3
\* largest number of paragraphs of an enumerated multi-paragraph text
MaxParas == 9

-----------------------------------------------------------------------------
(* Python str primitives on sequences of code points. *)

\* characters for which str.isspace() is true (what str.strip() removes)
IsSpace(c) ==
    \/ c \in 9..13
    \/ c \in 28..32
    \/ c \in {133, 160, 5760, 8232, 8233, 8239, 8287, 12288}
    \/ c \in 8192..8202

\* s[i:j] for 0 <= i, 0 <= j
Slice(s, i, j) ==
    LET hi == IF j < Len(s) THEN j ELSE Len(s)
    IN  IF i + 1 > hi THEN <<>> ELSE SubSeq(s, i + 1, hi)

\* s.strip()
Strip(s) ==
    LET n  == Len(s)
        NS == {i \in 1..n : ~IsSpace(s[i])}
        RS == {k \in 1..n : ~IsSpace(s[n + 1 - k])}
    IN  IF NS = {} THEN <<>>
        ELSE LET first == CHOOSE i \in NS : \A j \in NS : i <= j
                 back  == CHOOSE k \in RS : \A j \in RS : k <= j
             IN  SubSeq(s, first, n + 1 - back)

\* sub occurs in s at (1-based) position p
MatchAt(s, sub, p) == \A k \in 1..Len(sub) : s[p + k - 1] = sub[k]

\* sub in s
Contains(s, sub) == \E p \in 1..(Len(s) - Len(sub) + 1) : MatchAt(s, sub, p)

\* any(w in s for w in words)
ContainsAny(s, words) == \E k \in 1..Len(words) : Contains(s, words[k])

\* s.find(sub, from) as a 1-based position, 0 when there is none
IndexOf(s, sub, from) ==
    LET occ == {p \in from..(Len(s) - Len(sub) + 1) : MatchAt(s, sub, p)}
    IN  IF occ = {} THEN 0 ELSE CHOOSE p \in occ : \A q \in occ : p <= q

RECURSIVE SplitFrom(_, _, _)
SplitFrom(s, sep, from) ==
    LET p == IndexOf(s, sep, from)
    IN  IF p = 0 THEN << SubSeq(s, from, Len(s)) >>
        ELSE << SubSeq(s, from, p - 1) >> \o SplitFrom(s, sep, p + Len(sep))

\* s.split(sep), sep non-empty
Split(s, sep) == SplitFrom(s, sep, 1)

RECURSIVE Join(_, _)
\* sep.join(parts)
Join(sep, parts) ==
    IF parts = <<>> THEN <<>>
    ELSE IF Len(parts) = 1 THEN parts[1]
    ELSE parts[1] \o sep \o Join(sep, Tail(parts))

RECURSIVE Concat(_)
\* "".join(parts)
Concat(parts) == IF parts = <<>> THEN <<>> ELSE parts[1] \o Concat(Tail(parts))

\* s with every whitespace character deleted
DeleteWhitespace(s) == SelectSeq(s, LAMBDA c : ~IsSpace(c))

\* n copies of the character c
Fill(c, n) == [i \in 1..n |-> c]

\* s is a contiguous substring of t
IsSubstring(s, t) == Contains(t, s)

-----------------------------------------------------------------------------
(* _smart_segment_text *)

\* "\n\n"
ParagraphBreak == <<10, 10>>

\* ['突然', '接着', '然后', '后来', '最后', '终于', '此时', '这时', '当时', '那天', '第二天']
scene_markers ==
    << <<31361, 28982>>, <<25509, 30528>>, <<28982, 21518>>, <<21518, 26469>>,
       <<26368, 21518>>, <<32456, 20110>>, <<27492, 26102>>, <<36825, 26102>>,
       <<24403, 26102>>, <<37027, 22825>>, <<31532, 20108, 22825>> >>

\* ['首先', '其次', '再次', '最后', '另外', '此外', '然而', '但是', '因此', '所以']
argument_markers ==
    << <<39318, 20808>>, <<20854, 27425>>, <<20877, 27425>>, <<26368, 21518>>,
       <<21478, 22806>>, <<27492, 22806>>, <<28982, 32780>>, <<20294, 26159>>,
       <<22240, 27492>>, <<25152, 20197>> >>

\* ['外观', '功能', '特点', '优势', '方法', '步骤', '原理', '结构', '用途', '效果']
dimension_markers ==
    << <<22806, 35266>>, <<21151, 33021>>, <<29305, 28857>>, <<20248, 21183>>,
       <<26041, 27861>>, <<27493, 39588>>, <<21407, 29702>>, <<32467, 26500>>,
       <<29992, 36884>>, <<25928, 26524>> >>

\* 'narrative'
narrative == <<110, 97, 114, 114, 97, 116, 105, 118, 101>>
\* 'argumentative'
argumentative == <<97, 114, 103, 117, 109, 101, 110, 116, 97, 116, 105, 118, 101>>
\* 'descriptive'
descriptive == <<100, 101, 115, 99, 114, 105, 112, 116, 105, 118, 101>>

\* the tags _detect_text_type can return
TextTypes == {narrative, argumentative, descriptive}

\* current_segment += "\n\n" + para if current_segment else para
Accumulate(current_segment, para) ==
    IF current_segment # <<>> THEN current_segment \o ParagraphBreak \o para ELSE para

\* if current_segment.strip(): segments.append(current_segment.strip())
AppendIfNonBlank(segs, current_segment) ==
    IF Strip(current_segment) # <<>> THEN Append(segs, Strip(current_segment)) ELSE segs

\* one iteration of the narrative paragraph loop
NarrativeStep(acc, para) ==
    LET a1 == IF Len(acc.current_segment) + Len(para) > 1200
              THEN [segments |-> AppendIfNonBlank(acc.segments, acc.current_segment),
                    current_segment |-> para]
              ELSE [segments |-> acc.segments,
                    current_segment |-> Accumulate(acc.current_segment, para)]
    IN  IF ContainsAny(para, scene_markers) /\ Len(a1.current_segment) > 500
        THEN [segments |-> Append(a1.segments, Strip(a1.current_segment)),
              current_segment |-> <<>>]
        ELSE a1

\* one iteration of the argumentative (limit 1500) and descriptive (limit 1200) loops
MarkerStep(acc, para, markers, limit) ==
    LET a1 == IF ContainsAny(para, markers) /\ Len(acc.current_segment) > 600
              THEN [segments |-> AppendIfNonBlank(acc.segments, acc.current_segment),
                    current_segment |-> para]
              ELSE [segments |-> acc.segments,
                    current_segment |-> Accumulate(acc.current_segment, para)]
    IN  IF Len(a1.current_segment) > limit
        THEN [segments |-> Append(a1.segments, Strip(a1.current_segment)),
              current_segment |-> <<>>]
        ELSE a1

RECURSIVE ParagraphLoop(_, _, _, _)
\* for para in paragraphs[k..]: ... ; then the flush of the last current_segment
ParagraphLoop(acc, paragraphs, k, ttype) ==
    IF k > Len(paragraphs) THEN AppendIfNonBlank(acc.segments, acc.current_segment)
    ELSE LET next == IF ttype = narrative THEN NarrativeStep(acc, paragraphs[k])
                     ELSE IF ttype = argumentative
                          THEN MarkerStep(acc, paragraphs[k], argument_markers, 1500)
                          ELSE MarkerStep(acc, paragraphs[k], dimension_markers, 1200)
         IN  ParagraphLoop(next, paragraphs, k + 1, ttype)

\* the primary segmentation of the three branches
PrimarySegments(t, ttype) ==
    ParagraphLoop([segments |-> <<>>, current_segment |-> <<>>],
                  Split(t, ParagraphBreak), 1, ttype)

\* min(5, max(3, text_length // 800))
TargetSegments(text_length) ==
    LET q == text_length \div 800
        m == IF q > 3 THEN q ELSE 3
    IN  IF m < 5 THEN m ELSE 5

RECURSIVE SliceLoop(_, _, _, _)
\* for i in range(i, text_length, segment_length): keep the non-blank stripped slices
SliceLoop(t, i, segment_length, segs) ==
    IF i >= Len(t) THEN segs
    ELSE LET segment == Slice(t, i, i + segment_length)
         IN  SliceLoop(t, i + segment_length, segment_length,
                       AppendIfNonBlank(segs, segment))

\* the even split used when primary segmentation gave < 2 or > 8 chunks;
\* range(0, n, 0) raises ValueError
EvenSplit(t) ==
    LET text_length    == Len(t)
        segment_length == text_length \div TargetSegments(text_length)
    IN  IF segment_length = 0 THEN [raised |-> TRUE, value |-> <<>>]
        ELSE [raised |-> FALSE, value |-> SliceLoop(t, 0, segment_length, <<>>)]

\* the variant of the segmenter that keeps a single primary chunk (len(segments) < 1)
SmartSegmentTextKeepsSingleChunk(t, ttype) ==
    LET primary == PrimarySegments(t, ttype)
        chosen  == IF Len(primary) < 1 \/ Len(primary) > 8
                   THEN EvenSplit(t)
                   ELSE [raised |-> FALSE, value |-> primary]
    IN  [raised |-> chosen.raised, value |-> Slice(chosen.value, 0, 6)]

\* _smart_segment_text(text, text_type): [raised, value]
SmartSegmentTextOf(t, ttype) ==
    LET primary == PrimarySegments(t, ttype)
        chosen  == IF Len(primary) < 2 \/ Len(primary) > 8
                   THEN EvenSplit(t)
                   ELSE [raised |-> FALSE, value |-> primary]
    IN  [raised |-> chosen.raised, value |-> Slice(chosen.value, 0, 6)]

-----------------------------------------------------------------------------
(* Inputs of the segmenter: every short text, and texts of whole paragraphs. *)

\* the characters the short texts are made of: "x", " ", "\n"
ShortAlphabet == {120, 32, 10}

ShortTexts == UNION {[1..n -> ShortAlphabet] : n \in 1..MaxShortLen}

\* paragraphs the long texts are made of: plain paragraphs of 2, 50 and 1200
\* characters, a paragraph opening with '最后' (a narrative and argumentative
\* marker), one opening with '方法' (a descriptive marker), a blank paragraph,
\* a paragraph of 50 characters with a run of 16 spaces inside
ParagraphCatalog ==
    { Fill(120, 2), Fill(120, 50), Fill(120, 1200),
      <<26368, 21518>> \o Fill(120, 610),
      <<26041, 27861>> \o Fill(120, 610),
      Fill(32, 1501),
      Fill(120, 16) \o Fill(32, 16) \o Fill(120, 18) }

\* n paragraphs a, b, a, b, ... joined by blank lines
Alternate(a, b, n) ==
    Join(ParagraphBreak, [i \in 1..n |-> IF i % 2 = 1 THEN a ELSE b])

ParagraphTexts ==
    {Alternate(a, b, n) : a \in ParagraphCatalog, b \in ParagraphCatalog, n \in 1..MaxParas}

\* what analyze_text lets through: non-empty after trimming, at most 10000 characters
ValidText(t) == Len(Strip(t)) # 0 /\ Len(t) <= 10000

\* single paragraphs of 50 characters that open or close with a short text
FiftyCharTexts ==
    {s \o Fill(120, 50 - Len(s)) : s \in ShortTexts}
    \cup {Fill(120, 50 - Len(s)) \o s : s \in ShortTexts}

SegTexts == {t \in ShortTexts \cup FiftyCharTexts \cup ParagraphTexts : ValidText(t)}

NoResult == [raised |-> FALSE, value |-> <<>>]
\* no content analysis is held
NoCoreInfo == [main_theme |-> <<>>]

NoLLM == [kind |-> "none"]
NoResponse == [status |-> 0]

InitSeg ==
    /\ pc = "call"
    /\ text \in SegTexts
    /\ text_type \in TextTypes
    /\ style_prompt = <<>>
    /\ max_segments = 10
    /\ service_type = "demo"
    /\ started = {}
    /\ seg_result = NoResult
    /\ prompt_result = <<>>
    /\ client = FALSE
    /\ llm = NoLLM
    /\ segments = <<>>
    /\ response = NoResponse
    /\ images = <<>>
    /\ sent_prompts = <<>>
    /\ content_analysis = NoCoreInfo
    /\ unified_style = <<>>
    /\ demo_log = <<>>
    /\ backend_outcomes = <<>>
    /\ compose_outcomes = <<>>
    /\ truncate_max_length = 0
    /\ truncated = <<>>
    /\ theme_analysis = <<>>

\* the call _smart_segment_text(text, text_type)
SmartSegmentText ==
    /\ pc = "call"
    /\ seg_result' = SmartSegmentTextOf(text, text_type)
    /\ pc' = "returned"
    /\ UNCHANGED <<truncate_max_length, truncated, theme_analysis, compose_outcomes, content_analysis, unified_style, demo_log, backend_outcomes, text, text_type, style_prompt, max_segments, client, service_type,
                   started, prompt_result, llm, segments, response, images, sent_prompts>>

NextSeg == SmartSegmentText

SpecSeg == InitSeg /\ [][NextSeg]_vars

-----------------------------------------------------------------------------
(* Properties of the segmenter, checked under SpecSeg. *)

\* C2: for every valid text and every tag, _smart_segment_text returns without
\* raising, and returns between 1 and 6 chunks, each non-empty after trimming.
C2_ReturnsOneToSixNonEmptyChunks ==
    pc = "returned" =>
        /\ ~seg_result.raised
        /\ Len(seg_result.value) >= 1
        /\ Len(seg_result.value) <= 6
        /\ \A i \in 1..Len(seg_result.value) : Strip(seg_result.value[i]) # <<>>

\* C3: the chunks, concatenated in list order with whitespace deleted, are the
\* input with whitespace deleted: nothing is dropped, duplicated or reordered.
C3_ChunksReconstructText ==
    (pc = "returned" /\ ~seg_result.raised) =>
        DeleteWhitespace(Concat(seg_result.value)) = DeleteWhitespace(text)

-----------------------------------------------------------------------------
(* _extract_article_core_info *)

\* re.split(r'[...]', s): the pieces of s between the characters of delims
RECURSIVE SplitCharsFrom(_, _, _)
SplitCharsFrom(s, delims, from) ==
    LET occ == {p \in from..Len(s) : s[p] \in delims}
    IN  IF occ = {} THEN << SubSeq(s, from, Len(s)) >>
        ELSE LET p == CHOOSE q \in occ : \A r \in occ : q <= r
             IN  << SubSeq(s, from, p - 1) >> \o SplitCharsFrom(s, delims, p + 1)

\* the characters of the class [。！？]
SentenceEnd == {12290, 65281, 65311}

\* [s.strip() for s in re.split(r'[。！？]', text)]
StrippedSentences(t) ==
    LET parts == SplitCharsFrom(t, SentenceEnd, 1)
    IN  [i \in 1..Len(parts) |-> Strip(parts[i])]

\* the character class [一-龯]
IsCjk(c) == c \in 19968..40879

\* re.findall(r'[一-龯]{2,6}', s)[0], or '' when there is no match
FirstThemeKeyword(s) ==
    LET starts == {p \in 1..(Len(s) - 1) : IsCjk(s[p]) /\ IsCjk(s[p + 1])}
    IN  IF starts = {} THEN <<>>
        ELSE LET p    == CHOOSE q \in starts : \A r \in starts : q <= r
                 lens == {k \in 2..6 : /\ p + k - 1 <= Len(s)
                                       /\ \A j \in 0..(k - 1) : IsCjk(s[p + j])}
                 k    == CHOOSE x \in lens : \A y \in lens : y <= x
             IN  SubSeq(s, p, p + k - 1)

\* ['快乐', '愉悦', '温暖', '舒适', '宁静', '激动', '感动', '美好', '幸福', '满足']
emotion_words ==
    << <<24555, 20048>>, <<24841, 24742>>, <<28201, 26262>>,
       <<33298, 36866>>, <<23425, 38745>>, <<28608, 21160>>,
       <<24863, 21160>>, <<32654, 22909>>, <<24184, 31119>>,
       <<28385, 36275>> >>

\* an atmosphere list that starts with '怀旧':
\* ['怀旧', '温馨', '清新', '自然', '现代', '时尚', '简约', '优雅', '活力', '宁静', '明亮', '柔和']
atmosphere_words_with_nostalgia ==
    << <<24576, 26087>>, <<28201, 39336>>, <<28165, 26032>>, <<33258, 28982>>,
       <<29616, 20195>>, <<26102, 23578>>, <<31616, 32422>>,
       <<20248, 38597>>, <<27963, 21147>>, <<23425, 38745>>,
       <<26126, 20142>>, <<26580, 21644>> >>

\* ['温馨', '清新', '自然', '现代', '时尚', '简约', '优雅', '活力', '宁静', '明亮', '柔和']
atmosphere_words ==
    << <<28201, 39336>>, <<28165, 26032>>, <<33258, 28982>>,
       <<29616, 20195>>, <<26102, 23578>>, <<31616, 32422>>,
       <<20248, 38597>>, <<27963, 21147>>, <<23425, 38745>>,
       <<26126, 20142>>, <<26580, 21644>> >>

\* the atmosphere inferred when no atmosphere word occurs in the text
InferredAtmosphere(t) ==
    \* ['学习', '工作', '办公'] -> '简约'
    IF ContainsAny(t, << <<23398, 20064>>, <<24037, 20316>>, <<21150, 20844>> >>)
    THEN <<31616, 32422>>
    \* ['自然', '户外', '风景'] -> '清新'
    ELSE IF ContainsAny(t, << <<33258, 28982>>, <<25143, 22806>>, <<39118, 26223>> >>)
    THEN <<28165, 26032>>
    \* ['家', '温暖', '舒适'] -> '温馨'
    ELSE IF ContainsAny(t, << <<23478>>, <<28201, 26262>>, <<33298, 36866>> >>)
    THEN <<28201, 39336>>
    \* '自然'
    ELSE <<33258, 28982>>

\* _extract_article_core_info(text): the fields the prompt builders read
\* (key_scenes, objects and locations are filled by the source and read nowhere;
\* specific_details and visual_elements are initialised empty and never filled)
ExtractArticleCoreInfo(t) ==
    LET stripped  == StrippedSentences(t)
        sentences == SelectSeq(stripped, LAMBDA s : Len(s) > 5)
        first3    == Slice(sentences, 0, 3)
        long3     == SelectSeq(first3, LAMBDA s : Len(s) >= 10)
        content_parts == [i \in 1..Len(long3) |-> Slice(long3[i], 0, 25)]
        found     == SelectSeq(atmosphere_words, LAMBDA w : Contains(t, w))
    IN  [ main_theme    |-> IF sentences # <<>> THEN FirstThemeKeyword(sentences[1])
                            ELSE <<>>,
          \* "，".join(content_parts[:2])
          content_focus |-> IF sentences # <<>>
                            THEN Join(<<65292>>, Slice(content_parts, 0, 2))
                            ELSE <<>>,
          emotions      |-> SelectSeq(emotion_words, LAMBDA w : Contains(t, w)),
          atmosphere    |-> IF found # <<>> THEN found[1] ELSE InferredAtmosphere(t),
          specific_details |-> <<>>,
          visual_elements  |-> <<>> ]

-----------------------------------------------------------------------------
(* _build_visual_elements *)

BuildVisualElements(core_info, ttype) ==
    LET scene_parts ==
            Slice(core_info.visual_elements, 0, 2)
            \* f"{atmosphere}氛围"
            \o (IF core_info.atmosphere # <<>>
                THEN << core_info.atmosphere \o <<27675, 22260>> >> ELSE <<>>)
            \* f"{emotion}感"
            \o (IF core_info.emotions # <<>>
                THEN << core_info.emotions[1] \o <<24863>> >> ELSE <<>>)
        style_parts ==
            (IF core_info.atmosphere # <<>> THEN << core_info.atmosphere >> ELSE <<>>)
            \o (IF core_info.emotions # <<>> THEN << core_info.emotions[1] >> ELSE <<>>)
    IN  [ main_subject |->
              IF core_info.specific_details # <<>> THEN core_info.specific_details[1]
              ELSE IF core_info.content_focus # <<>>
                   THEN Slice(core_info.content_focus, 0, 20)
                   \* f"{main_theme}场景"
                   ELSE core_info.main_theme \o <<22330, 26223>>,
          \* "，".join(scene_parts) or "温馨生活场景"
          scene_description |->
              IF scene_parts # <<>> THEN Join(<<65292>>, scene_parts)
              ELSE <<28201, 39336, 29983, 27963, 22330, 26223>>,
          \* "，".join(style_parts) or "温馨自然"
          style_elements |->
              IF style_parts # <<>> THEN Join(<<65292>>, style_parts)
              ELSE <<28201, 39336, 33258, 28982>>,
          \* "高清摄影，专业构图，自然光线"
          technical_specs |-> <<39640, 28165, 25668, 24433, 65292, 19987, 19994, 26500, 22270, 65292, 33258, 28982, 20809, 32447>> ]

-----------------------------------------------------------------------------
(* STYLE_TEMPLATES and _determine_unified_style *)

\* "温馨治愈"
WarmHealing == <<28201, 39336, 27835, 24840>>
\* "清新自然"
FreshNatural == <<28165, 26032, 33258, 28982>>
\* "现代简约"
ModernMinimal == <<29616, 20195, 31616, 32422>>
\* "文艺复古"
LiteraryRetro == <<25991, 33402, 22797, 21476>>
\* "活力青春"
YouthfulEnergetic == <<27963, 21147, 38738, 26149>>

STYLE_TEMPLATES ==
    \* 温馨治愈风格 / 暖色调，米色，奶茶色，浅粉色 / 柔和自然光，温暖光线 /
    \* 居中构图，温馨氛围 / 柔和质感，温润材质 / 温馨舒适，治愈感
    (WarmHealing :> [
        base_style    |-> <<28201, 39336, 27835, 24840, 39118, 26684>>,
        color_palette |-> <<26262, 33394, 35843, 65292, 31859, 33394, 65292, 22902, 33590, 33394, 65292, 27973, 31881, 33394>>,
        lighting      |-> <<26580, 21644, 33258, 28982, 20809, 65292, 28201, 26262, 20809, 32447>>,
        composition   |-> <<23621, 20013, 26500, 22270, 65292, 28201, 39336, 27675, 22260>>,
        texture       |-> <<26580, 21644, 36136, 24863, 65292, 28201, 28070, 26448, 36136>>,
        mood          |-> <<28201, 39336, 33298, 36866, 65292, 27835, 24840, 24863>> ])
    \* 清新自然风格 / 清新色调，绿色，白色，浅蓝色 / 明亮自然光，清晨阳光 /
    \* 简洁构图，自然布局 / 清爽质感，自然材质 / 清新舒适，自然感
    @@ (FreshNatural :> [
        base_style    |-> <<28165, 26032, 33258, 28982, 39118, 26684>>,
        color_palette |-> <<28165, 26032, 33394, 35843, 65292, 32511, 33394, 65292, 30333, 33394, 65292, 27973, 34013, 33394>>,
        lighting      |-> <<26126, 20142, 33258, 28982, 20809, 65292, 28165, 26216, 38451, 20809>>,
        composition   |-> <<31616, 27905, 26500, 22270, 65292, 33258, 28982, 24067, 23616>>,
        texture       |-> <<28165, 29245, 36136, 24863, 65292, 33258, 28982, 26448, 36136>>,
        mood          |-> <<28165, 26032, 33298, 36866, 65292, 33258, 28982, 24863>> ])
    \* 现代简约风格 / 简约色调，黑白灰，高级灰 / 均匀光线，现代感照明 /
    \* 几何构图，简洁布局 / 光滑质感，现代材质 / 简约大气，现代感
    @@ (ModernMinimal :> [
        base_style    |-> <<29616, 20195, 31616, 32422, 39118, 26684>>,
        color_palette |-> <<31616, 32422, 33394, 35843, 65292, 40657, 30333, 28784, 65292, 39640, 32423, 28784>>,
        lighting      |-> <<22343, 21248, 20809, 32447, 65292, 29616, 20195, 24863, 29031, 26126>>,
        composition   |-> <<20960, 20309, 26500, 22270, 65292, 31616, 27905, 24067, 23616>>,
        texture       |-> <<20809, 28369, 36136, 24863, 65292, 29616, 20195, 26448, 36136>>,
        mood          |-> <<31616, 32422, 22823, 27668, 65292, 29616, 20195, 24863>> ])
    \* 文艺复古风格 / 复古色调，棕色，深绿，暗红 / 柔和侧光，复古氛围 /
    \* 经典构图，文艺布局 / 复古质感，怀旧材质 / 文艺气息，复古感
    @@ (LiteraryRetro :> [
        base_style    |-> <<25991, 33402, 22797, 21476, 39118, 26684>>,
        color_palette |-> <<22797, 21476, 33394, 35843, 65292, 26837, 33394, 65292, 28145, 32511, 65292, 26263, 32418>>,
        lighting      |-> <<26580, 21644, 20391, 20809, 65292, 22797, 21476, 27675, 22260>>,
        composition   |-> <<32463, 20856, 26500, 22270, 65292, 25991, 33402, 24067, 23616>>,
        texture       |-> <<22797, 21476, 36136, 24863, 65292, 24576, 26087, 26448, 36136>>,
        mood          |-> <<25991, 33402, 27668, 24687, 65292, 22797, 21476, 24863>> ])
    \* 活力青春风格 / 明亮色调，橙色，黄色，粉色 / 明亮光线，活力照明 /
    \* 动感构图，活跃布局 / 光泽质感，活力材质 / 青春活力，动感十足
    @@ (YouthfulEnergetic :> [
        base_style    |-> <<27963, 21147, 38738, 26149, 39118, 26684>>,
        color_palette |-> <<26126, 20142, 33394, 35843, 65292, 27225, 33394, 65292, 40644, 33394, 65292, 31881, 33394>>,
        lighting      |-> <<26126, 20142, 20809, 32447, 65292, 27963, 21147, 29031, 26126>>,
        composition   |-> <<21160, 24863, 26500, 22270, 65292, 27963, 36291, 24067, 23616>>,
        texture       |-> <<20809, 27901, 36136, 24863, 65292, 27963, 21147, 26448, 36136>>,
        mood          |-> <<38738, 26149, 27963, 21147, 65292, 21160, 24863, 21313, 36275>> ])

\* "现代简约风格", the default style hint
DefaultStylePrompt == <<29616, 20195, 31616, 32422, 39118, 26684>>

\* x in emotions (list membership)
InList(x, list) == \E i \in 1..Len(list) : list[i] = x

\* the resolver without its hint branch: the content analysis alone decides
DetermineUnifiedStyleContentFirst(core_info, ttype, hint) ==
    LET atmosphere == core_info.atmosphere
        emotions   == core_info.emotions
    IN  IF Contains(atmosphere, <<28201, 39336>>) \/ Contains(atmosphere, <<28201, 26262>>)
        THEN WarmHealing
        ELSE IF Contains(atmosphere, <<28165, 26032>>) \/ Contains(atmosphere, <<33258, 28982>>)
        THEN FreshNatural
        ELSE IF emotions # <<>> /\ (InList(<<24555, 20048>>, emotions) \/ InList(<<24841, 24742>>, emotions))
        THEN YouthfulEnergetic
        ELSE IF Contains(atmosphere, <<25991, 33402>>) \/ Contains(atmosphere, <<24576, 26087>>)
        THEN LiteraryRetro
        ELSE ModernMinimal

\* the resolver with the emotion test moved in front of the atmosphere tests
DetermineUnifiedStyleEmotionsFirst(core_info, ttype, hint) ==
    LET atmosphere == core_info.atmosphere
        emotions   == core_info.emotions
    IN  IF hint # <<>> /\ hint # DefaultStylePrompt
        THEN IF Contains(hint, <<28201, 39336>>) \/ Contains(hint, <<27835, 24840>>)
             THEN WarmHealing
             ELSE IF Contains(hint, <<28165, 26032>>) \/ Contains(hint, <<33258, 28982>>)
             THEN FreshNatural
             ELSE IF Contains(hint, <<25991, 33402>>) \/ Contains(hint, <<22797, 21476>>)
             THEN LiteraryRetro
             ELSE IF Contains(hint, <<27963, 21147>>) \/ Contains(hint, <<38738, 26149>>)
             THEN YouthfulEnergetic
             ELSE ModernMinimal
        ELSE IF emotions # <<>> /\ (InList(<<24555, 20048>>, emotions) \/ InList(<<24841, 24742>>, emotions))
        THEN YouthfulEnergetic
        ELSE IF Contains(atmosphere, <<28201, 39336>>) \/ Contains(atmosphere, <<28201, 26262>>)
        THEN WarmHealing
        ELSE IF Contains(atmosphere, <<28165, 26032>>) \/ Contains(atmosphere, <<33258, 28982>>)
        THEN FreshNatural
        ELSE IF Contains(atmosphere, <<25991, 33402>>) \/ Contains(atmosphere, <<24576, 26087>>)
        THEN LiteraryRetro
        ELSE ModernMinimal

\* _determine_unified_style(core_info, text_type, style_prompt)
DetermineUnifiedStyle(core_info, ttype, hint) ==
    LET atmosphere == core_info.atmosphere
        emotions   == core_info.emotions
    IN  IF hint # <<>> /\ hint # DefaultStylePrompt
        THEN \* "温馨" / "治愈"
             IF Contains(hint, <<28201, 39336>>) \/ Contains(hint, <<27835, 24840>>)
             THEN WarmHealing
             \* "清新" / "自然"
             ELSE IF Contains(hint, <<28165, 26032>>) \/ Contains(hint, <<33258, 28982>>)
             THEN FreshNatural
             \* "文艺" / "复古"
             ELSE IF Contains(hint, <<25991, 33402>>) \/ Contains(hint, <<22797, 21476>>)
             THEN LiteraryRetro
             \* "活力" / "青春"
             ELSE IF Contains(hint, <<27963, 21147>>) \/ Contains(hint, <<38738, 26149>>)
             THEN YouthfulEnergetic
             ELSE ModernMinimal
        \* '温馨' / '温暖'
        ELSE IF Contains(atmosphere, <<28201, 39336>>) \/ Contains(atmosphere, <<28201, 26262>>)
        THEN WarmHealing
        \* '清新' / '自然'
        ELSE IF Contains(atmosphere, <<28165, 26032>>) \/ Contains(atmosphere, <<33258, 28982>>)
        THEN FreshNatural
        \* '快乐' / '愉悦'
        ELSE IF emotions # <<>> /\ (InList(<<24555, 20048>>, emotions) \/ InList(<<24841, 24742>>, emotions))
        THEN YouthfulEnergetic
        \* '文艺' / '怀旧'
        ELSE IF Contains(atmosphere, <<25991, 33402>>) \/ Contains(atmosphere, <<24576, 26087>>)
        THEN LiteraryRetro
        ELSE ModernMinimal

-----------------------------------------------------------------------------
(* The five section builders *)

\* _build_style_positioning(core_info, text_type, style_prompt)
BuildStylePositioning(core_info, ttype, hint) ==
    LET template == STYLE_TEMPLATES[DetermineUnifiedStyle(core_info, ttype, hint)]
    IN  Join(<<65292>>, << template.base_style, template.mood >>)

\* ['的', '在', '像', '如', '美', '光', '色', '温', '柔']
descriptive_chars ==
    << <<30340>>, <<22312>>, <<20687>>, <<22914>>, <<32654>>, <<20809>>,
       <<33394>>, <<28201>>, <<26580>> >>

\* _build_core_content(core_info, text)
BuildCoreContent(core_info, t) ==
    LET stripped  == StrippedSentences(t)
        sentences == SelectSeq(stripped, LAMBDA s : Len(s) >= 15 /\ Len(s) <= 40)
        hits      == SelectSeq(Slice(sentences, 0, 3),
                               LAMBDA s : ContainsAny(s, descriptive_chars))
        parts1    == IF hits # <<>> THEN << hits[1] >> ELSE <<>>
        theme     == core_info.main_theme
        parts2    == IF theme # <<>> /\ (parts1 = <<>> \/ ~Contains(parts1[1], theme))
                     THEN Append(parts1, theme) ELSE parts1
        \* "温馨生活场景"
        parts3    == IF parts2 = <<>> THEN << <<28201, 39336, 29983, 27963, 22330, 26223>> >> ELSE parts2
    IN  Join(<<65292>>, Slice(parts3, 0, 2))

\* _build_visual_description(visual_elements, core_info)
BuildVisualDescription(visual_elements, core_info) ==
    LET template == STYLE_TEMPLATES[DetermineUnifiedStyle(core_info, <<>>, <<>>)]
        subject  == visual_elements.main_subject
        scene    == visual_elements.scene_description
        parts1   == (IF subject # <<>> /\ Len(subject) <= 20 THEN << subject >> ELSE <<>>)
                    \o (IF scene # <<>> /\ Len(scene) <= 15 THEN << scene >> ELSE <<>>)
                    \o << template.color_palette, template.lighting, template.composition >>
        parts2   == IF Len(parts1) < 3
                    THEN parts1 \o << template.color_palette, template.lighting >>
                    ELSE parts1
    IN  Join(<<65292>>, Slice(parts2, 0, 4))

\* _build_layout_requirements(): "竖版构图9:16，小红书风格排版，清晰易读，视觉层次分明"
BuildLayoutRequirements ==
    <<31446, 29256, 26500, 22270, 57, 58, 49, 54, 65292, 23567, 32418, 20070, 39118, 26684, 25490, 29256, 65292, 28165, 26224, 26131, 35835, 65292, 35270, 35273, 23618, 27425, 20998, 26126>>

\* '叙事文'
NarrativeZh == <<21465, 20107, 25991>>
\* '说明文'
ExpositoryZh == <<35828, 26126, 25991>>

\* the detail section with the type-specific item chosen by the classifier's tags:
\* 'narrative' gives "情感表达", 'descriptive' gives "简洁明了"
BuildDetailSupplementsByTag(core_info, ttype) ==
    LET template == STYLE_TEMPLATES[DetermineUnifiedStyle(core_info, ttype, <<>>)]
        specific == IF ttype = narrative THEN <<24773, 24863, 34920, 36798>>
                    ELSE IF ttype = descriptive THEN <<31616, 27905, 26126, 20102>>
                    ELSE <<35270, 35273, 32654, 24863>>
    IN  Join(<<65292>>, << <<39640, 28165, 25668, 24433>>, <<19987, 19994, 26500, 22270>>, template.texture, specific >>)

\* _build_detail_supplements(core_info, text_type)
BuildDetailSupplements(core_info, ttype) ==
    LET template == STYLE_TEMPLATES[DetermineUnifiedStyle(core_info, ttype, <<>>)]
        \* "情感表达" / "简洁明了" / "视觉美感"
        specific == IF ttype = NarrativeZh THEN <<24773, 24863, 34920, 36798>>
                    ELSE IF ttype = ExpositoryZh THEN <<31616, 27905, 26126, 20102>>
                    ELSE <<35270, 35273, 32654, 24863>>
    \* "高清摄影", "专业构图", template["texture"], specific
    IN  Join(<<65292>>, << <<39640, 28165, 25668, 24433>>, <<19987, 19994, 26500, 22270>>, template.texture, specific >>)

-----------------------------------------------------------------------------
(* _truncate_text and _generate_xiaohongshu_prompt *)

\* the characters of '，。、'
CutMarks == {65292, 12290, 12289}

\* _truncate_text with the search running over every index below max_length
TruncateTextAnyMark(s, max_length) ==
    IF Len(s) <= max_length THEN s
    ELSE LET cuts == {i \in 0..(max_length - 1) : s[i + 1] \in CutMarks}
         IN  IF cuts = {} THEN Slice(s, 0, max_length)
             ELSE Slice(s, 0, CHOOSE i \in cuts : \A j \in cuts : j <= i)

\* _truncate_text(text, max_length)
TruncateText(s, max_length) ==
    IF Len(s) <= max_length THEN s
    ELSE \* for i in range(max_length - 1, max_length // 2, -1): if text[i] in '，。、'
         LET cuts == {i \in (max_length \div 2 + 1)..(max_length - 1) : s[i + 1] \in CutMarks}
         IN  IF cuts = {} THEN Slice(s, 0, max_length)
             ELSE Slice(s, 0, CHOOSE i \in cuts : \A j \in cuts : j <= i)

\* 【风格定位】
LabelStyle == <<12304, 39118, 26684, 23450, 20301, 12305>>
\* 【核心内容】
LabelCore == <<12304, 26680, 24515, 20869, 23481, 12305>>
\* 【视觉元素】
LabelVisual == <<12304, 35270, 35273, 20803, 32032, 12305>>
\* 【排版要求】
LabelLayout == <<12304, 25490, 29256, 35201, 27714, 12305>>
\* 【细节补充】
LabelDetail == <<12304, 32454, 33410, 34917, 20805, 12305>>

\* "；", the separator of the sections
SectionSeparator == <<65307>>

\* "；".join of the five labelled sections
JoinSections(style, core, visual, layout, detail) ==
    Join(SectionSeparator,
         << LabelStyle \o style, LabelCore \o core, LabelVisual \o visual,
            LabelLayout \o layout, LabelDetail \o detail >>)

\* the variant of the composer in which the raw text is used as the core-content
\* section and the length control is left out
GenerateXiaohongshuPromptRawText(t, hint, ttype) ==
    LET core_info       == ExtractArticleCoreInfo(t)
        visual_elements == BuildVisualElements(core_info, ttype)
    IN  JoinSections(Strip(BuildStylePositioning(core_info, ttype, hint)),
                     Strip(t),
                     Strip(BuildVisualDescription(visual_elements, core_info)),
                     Strip(BuildLayoutRequirements),
                     Strip(BuildDetailSupplements(core_info, ttype)))

\* `if not section.strip(): section = default`
OrDefault(section, default) == IF Strip(section) = <<>> THEN default ELSE section

\* the length control: sections are truncated when the assembled prompt is
\* longer than 300 characters
LengthControl(full_prompt, style_positioning, core_content, visual_desc, layout_requirements, detail_supplements) ==
    IF Len(full_prompt) > 300
    THEN JoinSections(TruncateText(style_positioning, 15),
                      TruncateText(core_content, 50),
                      TruncateText(visual_desc, 60),
                      TruncateText(layout_requirements, 30),
                      TruncateText(detail_supplements, 25))
    ELSE full_prompt

\* prompt_sections, full_prompt and the length control, from the five sections
AssemblePrompt(style_positioning, core_content, visual_desc, layout_requirements, detail_supplements) ==
    LengthControl(JoinSections(Strip(style_positioning), Strip(core_content),
                               Strip(visual_desc), Strip(layout_requirements),
                               Strip(detail_supplements)),
                  style_positioning, core_content, visual_desc,
                  layout_requirements, detail_supplements)

\* the body of _generate_xiaohongshu_prompt once core_info is extracted
PromptFromCoreInfo(core_info, t, hint, ttype) ==
    AssemblePrompt(
        \* "清新自然风格"
        OrDefault(BuildStylePositioning(core_info, ttype, hint),
                  <<28165, 26032, 33258, 28982, 39118, 26684>>),
        \* "温馨故事场景"
        OrDefault(BuildCoreContent(core_info, t),
                  <<28201, 39336, 25925, 20107, 22330, 26223>>),
        \* "柔和光线，温暖色调"
        OrDefault(BuildVisualDescription(BuildVisualElements(core_info, ttype), core_info),
                  <<26580, 21644, 20809, 32447, 65292, 28201, 26262, 33394, 35843>>),
        BuildLayoutRequirements,
        BuildDetailSupplements(core_info, ttype))

\* _generate_xiaohongshu_prompt(text, style_prompt, text_type)
GenerateXiaohongshuPrompt(t, hint, ttype) ==
    PromptFromCoreInfo(ExtractArticleCoreInfo(t), t, hint, ttype)

-----------------------------------------------------------------------------
(* Inputs of the prompt composer: texts made of a few fragments, style hints. *)

\* largest number of fragments of an enumerated segment text
MaxFrags == 2

PromptFragments ==
    { \* '学习'
      <<23398, 20064>>,
      \* '今天的阳光洒在窗台上很温暖也很舒适呀。'
      <<20170, 22825, 30340, 38451, 20809, 27922, 22312, 31383, 21488, 19978, 24456, 28201, 26262, 20063, 24456, 33298, 36866, 21568, 12290>>,
      \* '【细节补充】'
      <<12304, 32454, 33410, 34917, 20805, 12305>>,
      \* '快乐'
      <<24555, 20048>>,
      \* '现代'
      <<29616, 20195>>,
      \* '怀旧的文艺小店；'
      <<24576, 26087, 30340, 25991, 33402, 23567, 24215, 65307>>,
      \* 200 times 'x'
      Fill(120, 200) }

PromptTexts ==
    {Concat(fs) : fs \in UNION {[1..n -> PromptFragments] : n \in 1..MaxFrags}}

StyleHints ==
    { \* '' and the default hint '现代简约风格'
      <<>>, DefaultStylePrompt,
      \* '温馨治愈风格'
      <<28201, 39336, 27835, 24840, 39118, 26684>>,
      \* '文艺复古风格'
      <<25991, 33402, 22797, 21476, 39118, 26684>>,
      \* '赛博朋克'
      <<36187, 21338, 26379, 20811>> }

InitPrompt ==
    /\ pc = "call"
    /\ text \in PromptTexts
    /\ text_type \in TextTypes
    /\ style_prompt \in StyleHints
    /\ max_segments = 10
    /\ service_type = "demo"
    /\ started = {}
    /\ seg_result = NoResult
    /\ prompt_result = <<>>
    /\ client = FALSE
    /\ llm = NoLLM
    /\ segments = <<>>
    /\ response = NoResponse
    /\ images = <<>>
    /\ sent_prompts = <<>>
    /\ content_analysis = NoCoreInfo
    /\ unified_style = <<>>
    /\ demo_log = <<>>
    /\ backend_outcomes = <<>>
    /\ compose_outcomes = <<>>
    /\ truncate_max_length = 0
    /\ truncated = <<>>
    /\ theme_analysis = <<>>

\* the call _generate_xiaohongshu_prompt(text, style_prompt, text_type)
GenerateXiaohongshuPromptCall ==
    /\ pc = "call"
    /\ prompt_result' = GenerateXiaohongshuPrompt(text, style_prompt, text_type)
    /\ pc' = "returned"
    /\ UNCHANGED <<truncate_max_length, truncated, theme_analysis, compose_outcomes, content_analysis, unified_style, demo_log, backend_outcomes, text, text_type, style_prompt, max_segments, client, service_type,
                   started, seg_result, llm, segments, response, images, sent_prompts>>

NextPrompt == GenerateXiaohongshuPromptCall

SpecPrompt == InitPrompt /\ [][NextPrompt]_vars

-----------------------------------------------------------------------------
(* Properties of the prompt composer, checked under SpecPrompt. *)

\* C8: the string returned by _generate_xiaohongshu_prompt has at most 300
\* characters, for every segment text, style hint and text-type tag.
C8_PromptWithinBudget ==
    pc = "returned" => Len(prompt_result) <= 300

\* the composer has returned a prompt for a text that is itself longer than the budget
C8_Witness ==
    /\ pc = "returned"
    /\ Len(text) > 300
    /\ Len(prompt_result) > 0
    /\ Len(prompt_result) <= 300

SectionLabels == << LabelStyle, LabelCore, LabelVisual, LabelLayout, LabelDetail >>

\* the positions at which sub occurs in s
Occurrences(s, sub) == {p \in 1..(Len(s) - Len(sub) + 1) : MatchAt(s, sub, p)}

\* C9: the returned prompt contains exactly five section labels, in the order
\* 风格定位, 核心内容, 视觉元素, 排版要求, 细节补充, each followed by a non-empty
\* section text, also when the segment text itself contains a label string.
C9_FiveLabelsInOrder ==
    pc = "returned" =>
        /\ \A k \in 1..5 : Cardinality(Occurrences(prompt_result, SectionLabels[k])) = 1
        /\ \A k \in 1..4 : IndexOf(prompt_result, SectionLabels[k], 1)
                               < IndexOf(prompt_result, SectionLabels[k + 1], 1)
        /\ \A k \in 1..5 :
               LET after == IndexOf(prompt_result, SectionLabels[k], 1)
                                + Len(SectionLabels[k])
               IN  /\ after <= Len(prompt_result)
                   /\ prompt_result[after] # SectionSeparator[1]

\* C10: one StyleTemplate serves the whole prompt: the template whose base_style
\* and mood fill the style section is the one whose color_palette and lighting
\* fill the visual section and whose texture fills the detail section.
C10_OneTemplatePerPrompt ==
    pc = "returned" =>
        \E key \in DOMAIN STYLE_TEMPLATES :
            LET template == STYLE_TEMPLATES[key]
            IN  /\ Contains(prompt_result,
                            LabelStyle \o template.base_style \o <<65292>> \o template.mood)
                /\ Contains(prompt_result,
                            template.color_palette \o <<65292>> \o template.lighting)
                /\ Contains(prompt_result,
                            <<65292>> \o template.texture \o <<65292>>)

-----------------------------------------------------------------------------
(* _detect_text_type and _generate_local_summary *)

\* ['故事', '情节', '人物', '对话', '场景', '时间', '地点', '发生', '经历', '遇到']
narrative_keywords ==
    << <<25925, 20107>>, <<24773, 33410>>, <<20154, 29289>>,
       <<23545, 35805>>, <<22330, 26223>>, <<26102, 38388>>,
       <<22320, 28857>>, <<21457, 29983>>, <<32463, 21382>>,
       <<36935, 21040>> >>

\* ['观点', '论证', '认为', '因为', '所以', '然而', '但是', '首先', '其次', '总之']
argumentative_keywords ==
    << <<35266, 28857>>, <<35770, 35777>>, <<35748, 20026>>,
       <<22240, 20026>>, <<25152, 20197>>, <<28982, 32780>>,
       <<20294, 26159>>, <<39318, 20808>>, <<20854, 27425>>,
       <<24635, 20043>> >>

\* ['介绍', '说明', '特点', '功能', '方法', '步骤', '原理', '结构', '组成']
descriptive_keywords ==
    << <<20171, 32461>>, <<35828, 26126>>, <<29305, 28857>>,
       <<21151, 33021>>, <<26041, 27861>>, <<27493, 39588>>,
       <<21407, 29702>>, <<32467, 26500>>, <<32452, 25104>> >>

\* sum(1 for keyword in keywords if keyword in text)
KeywordScore(t, keywords) == Cardinality({k \in 1..Len(keywords) : Contains(t, keywords[k])})

\* the variant of the classifier that answers descriptive when no keyword occurs
DetectTextTypeDescriptiveDefault(t) ==
    LET narrative_score     == KeywordScore(t, narrative_keywords)
        argumentative_score == KeywordScore(t, argumentative_keywords)
        descriptive_score   == KeywordScore(t, descriptive_keywords)
    IN  IF narrative_score = 0 /\ argumentative_score = 0 /\ descriptive_score = 0
        THEN descriptive
        ELSE IF narrative_score >= argumentative_score /\ narrative_score >= descriptive_score
        THEN narrative
        ELSE IF argumentative_score >= descriptive_score THEN argumentative
        ELSE descriptive

\* the variant of the classifier in which descriptive wins a tie with argumentative
DetectTextTypeDescriptiveWinsTie(t) ==
    LET narrative_score     == KeywordScore(t, narrative_keywords)
        argumentative_score == KeywordScore(t, argumentative_keywords)
        descriptive_score   == KeywordScore(t, descriptive_keywords)
    IN  IF narrative_score >= argumentative_score /\ narrative_score >= descriptive_score
        THEN narrative
        ELSE IF argumentative_score > descriptive_score THEN argumentative
        ELSE descriptive

\* _detect_text_type(text)
DetectTextTypeOf(t) ==
    LET narrative_score     == KeywordScore(t, narrative_keywords)
        argumentative_score == KeywordScore(t, argumentative_keywords)
        descriptive_score   == KeywordScore(t, descriptive_keywords)
    IN  IF narrative_score >= argumentative_score /\ narrative_score >= descriptive_score
        THEN narrative
        ELSE IF argumentative_score >= descriptive_score THEN argumentative
        ELSE descriptive

RECURSIVE Decimal(_)
\* str(n) for n >= 0
Decimal(n) == IF n < 10 THEN << 48 + n >> ELSE Decimal(n \div 10) \o << 48 + (n % 10) >>

\* _generate_local_summary(text, segment_id, text_type)
GenerateLocalSummary(t, segment_id, ttype) ==
    LET keywords ==
            \* ['故事', '情节', '人物', '场景', '情感', '经历', '遇到', '发生']
            IF ttype = narrative
            THEN << <<25925, 20107>>, <<24773, 33410>>, <<20154, 29289>>,
       <<22330, 26223>>, <<24773, 24863>>, <<32463, 21382>>,
       <<36935, 21040>>, <<21457, 29983>> >>
            \* ['观点', '论证', '分析', '认为', '因为', '所以', '结论']
            ELSE IF ttype = argumentative
            THEN << <<35266, 28857>>, <<35770, 35777>>, <<20998, 26512>>,
       <<35748, 20026>>, <<22240, 20026>>, <<25152, 20197>>,
       <<32467, 35770>> >>
            \* ['介绍', '说明', '特点', '功能', '方法', '原理', '结构']
            ELSE << <<20171, 32461>>, <<35828, 26126>>, <<29305, 28857>>,
       <<21151, 33021>>, <<26041, 27861>>, <<21407, 29702>>,
       <<32467, 26500>> >>
        key_phrases == SelectSeq(keywords, LAMBDA kw : Contains(t, kw))
    IN  \* f"第{segment_id}段：{key_phrases[0]}相关内容"
        IF key_phrases # <<>>
        THEN <<31532>> \o Decimal(segment_id) \o <<27573, 65306>> \o key_phrases[1] \o <<30456, 20851, 20869, 23481>>
        \* f"第{segment_id}段内容摘要"
        ELSE <<31532>> \o Decimal(segment_id) \o <<27573, 20869, 23481, 25688, 35201>>

-----------------------------------------------------------------------------
(* analyze_text_with_doubao *)

\* the segments built without the LLM (no client, or the fallback after a failure)
LocalSegments(raw_segments, hint, ttype) ==
    [i \in 1..Len(raw_segments) |->
        [ id           |-> i,
          content      |-> raw_segments[i],
          summary      |-> GenerateLocalSummary(raw_segments[i], i, ttype),
          image_prompt |-> GenerateXiaohongshuPrompt(raw_segments[i], hint, ttype) ]]

\* segment_data.get(key, default)
DictGet(segment_data, key, default) ==
    IF key \in DOMAIN segment_data THEN segment_data[key] ELSE default

\* the TextSegment of entry i with the content the LLM wrote, when it wrote one
SegmentFromEntryKeepsLLMContent(segment_data, i, raw_segments, hint, ttype) ==
    LET original_content ==
            IF "content" \in DOMAIN segment_data THEN segment_data["content"]
            ELSE IF i <= Len(raw_segments) THEN raw_segments[i]
            ELSE <<27573, 33853, 32>> \o Decimal(i)
    IN  [ id           |-> DictGet(segment_data, "id", i),
          content      |-> original_content,
          summary      |-> DictGet(segment_data, "summary",
                                   <<31532>> \o Decimal(i) \o <<27573, 20869, 23481, 25688, 35201>>),
          image_prompt |-> DictGet(segment_data, "image_prompt",
                                   GenerateXiaohongshuPrompt(original_content, hint, ttype)) ]

\* the TextSegment built from entry i (1-based here) of the parsed JSON array
SegmentFromEntry(segment_data, i, raw_segments, hint, ttype) ==
    LET \* raw_segments[i] if i < len(raw_segments) else segment_data.get("content", f"段落 {i + 1}")
        original_content ==
            IF i <= Len(raw_segments) THEN raw_segments[i]
            ELSE DictGet(segment_data, "content", <<27573, 33853, 32>> \o Decimal(i))
    IN  [ id           |-> DictGet(segment_data, "id", i),
          content      |-> original_content,
          \* f"第{i + 1}段内容摘要"
          summary      |-> DictGet(segment_data, "summary",
                                   <<31532>> \o Decimal(i) \o <<27573, 20869, 23481, 25688, 35201>>),
          image_prompt |-> DictGet(segment_data, "image_prompt",
                                   GenerateXiaohongshuPrompt(original_content, hint, ttype)) ]

\* analyze_text_with_doubao without the local fallback: a failed call or an answer
\* that cannot be parsed gives no segments
SegmentsWithClientNoFallback(answer, raw_segments, hint, ttype) ==
    IF answer.kind = "array"
    THEN [i \in 1..Len(answer.entries) |->
             SegmentFromEntry(answer.entries[i], i, raw_segments, hint, ttype)]
    ELSE <<>>

\* the segments analyze_text_with_doubao returns when a client is configured and
\* the LLM collaborator answers `answer`
SegmentsWithClient(answer, raw_segments, hint, ttype) ==
    IF answer.kind = "array"
    THEN [i \in 1..Len(answer.entries) |->
             SegmentFromEntry(answer.entries[i], i, raw_segments, hint, ttype)]
    \* the call raised, json.loads raised JSONDecodeError, or building a TextSegment
    \* from an entry raised: all end in the local fallback
    ELSE LocalSegments(raw_segments, hint, ttype)

-----------------------------------------------------------------------------
(* The two endpoints: POST /api/analyze-text and POST /api/generate-images. *)

\* largest number of entries of an enumerated LLM JSON array
MaxLLMEntries == 3
\* largest number of segments of an enumerated image request
MaxImageSegments == 2

\* request.text of the enumerated analyze requests
EndpointTexts ==
    { \* '', '  ', 10001 characters: the invalid requests
      <<>>, Fill(32, 2), Fill(120, 10001),
      \* 'xx', 'x  '
      Fill(120, 2), <<120, 32, 32>>,
      \* '今天的阳光洒在窗台上很温暖也很舒适呀。'
      <<20170, 22825, 30340, 38451, 20809, 27922, 22312, 31383, 21488, 19978, 24456, 28201, 26262, 20063, 24456, 33298, 36866, 21568, 12290>>,
      \* '学习的方法和步骤'
      <<23398, 20064, 30340, 26041, 27861, 21644, 27493, 39588>>,
      \* '首先但是因此所以'
      <<39318, 20808, 20294, 26159, 22240, 27492, 25152, 20197>>,
      \* 1200 characters, a blank line, 2 characters
      Fill(120, 1200) \o ParagraphBreak \o Fill(120, 2) }

\* request.style_prompt: '' (None), '温馨治愈风格', a hint of 200 characters
RequestStyleHints == { <<>>, <<28201, 39336, 27835, 24840, 39118, 26684>>, Fill(120, 200) }

\* request.max_segments: None, 2, the default 10
RequestMaxSegments == {0, 2, 10}

\* entries an LLM answer may hold (a JSON object is a function on its keys)
LLMEntries ==
    { \* {"id": 1, "content": "改写的内容", "summary": "摘要", "image_prompt": "小红书爆款配图，竖版构图"}
      [ id |-> 1, content |-> <<25913, 20889, 30340, 20869, 23481>>, summary |-> <<25688, 35201>>,
        image_prompt |-> <<23567, 32418, 20070, 29190, 27454, 37197, 22270, 65292, 31446, 29256, 26500, 22270>> ],
      \* {"summary": "摘要"}
      [ summary |-> <<25688, 35201>> ],
      \* {"id": 7, "content": "编造的段落", "image_prompt": 301 characters}
      [ id |-> 7, content |-> <<32534, 36896, 30340, 27573, 33853>>, image_prompt |-> Fill(120, 301) ] }

\* what the LLM collaborator can answer: the call raises, the answer is no JSON,
\* the JSON holds entries no TextSegment can be built from, or it is an array of objects
LLMAnswers ==
    { [kind |-> "raises"], [kind |-> "not_json"], [kind |-> "bad_entries"] }
    \cup { [kind |-> "array", entries |-> es] :
             es \in UNION {[1..n -> LLMEntries] : n \in 0..MaxLLMEntries} }

\* request.style_prompt or "现代简约风格"
EffectiveStylePrompt == IF style_prompt = <<>> THEN DefaultStylePrompt ELSE style_prompt

ErrorResponse(status) == [status |-> status, segments |-> <<>>, total_count |-> 0]

\* any exception raised inside the try block of analyze_text, the HTTPException(400)
\* of the validation included, is caught by `except Exception` and re-raised as
\* HTTPException(status_code=500)
AnalyzeTextRaises(exc) == ErrorResponse(500)

\* analyze_text: the validation of the request
ValidateRequest ==
    /\ pc = "request"
    /\ IF Len(Strip(text)) = 0
       THEN response' = AnalyzeTextRaises([http |-> 400]) /\ pc' = "responded"
       ELSE IF Len(text) > 10000
            THEN response' = AnalyzeTextRaises([http |-> 400]) /\ pc' = "responded"
            ELSE response' = response /\ pc' = "classify"
    /\ UNCHANGED <<truncate_max_length, truncated, theme_analysis, compose_outcomes, content_analysis, unified_style, demo_log, backend_outcomes, text, text_type, style_prompt, max_segments, client, service_type,
                   started, seg_result, prompt_result, llm, segments, images,
                   sent_prompts>>

\* analyze_text_with_doubao, step 1: text_type = _detect_text_type(text)
DetectTextType ==
    /\ pc = "classify"
    /\ text_type' = DetectTextTypeOf(text)
    /\ started' = started \cup {"classify"}
    /\ pc' = "segment"
    /\ UNCHANGED <<truncate_max_length, truncated, theme_analysis, compose_outcomes, content_analysis, unified_style, demo_log, backend_outcomes, text, style_prompt, max_segments, client, service_type, seg_result,
                   prompt_result, llm, segments, response, images, sent_prompts>>

\* analyze_text_with_doubao, step 2: raw_segments = _smart_segment_text(text, text_type);
\* an exception of the segmenter leaves analyze_text_with_doubao and is caught in analyze_text
SegmentText ==
    /\ pc = "segment"
    /\ LET r == SmartSegmentTextOf(text, text_type)
       IN  /\ seg_result' = r
           /\ IF r.raised
              THEN response' = AnalyzeTextRaises([error |-> "ValueError"]) /\ pc' = "responded"
              ELSE response' = response /\ pc' = "build"
    /\ started' = started \cup {"segment"}
    /\ UNCHANGED <<truncate_max_length, truncated, theme_analysis, compose_outcomes, content_analysis, unified_style, demo_log, backend_outcomes, text, text_type, style_prompt, max_segments, client, service_type,
                   prompt_result, llm, segments, images, sent_prompts>>

\* analyze_text_with_doubao without a client: the local segments
BuildLocalSegments ==
    /\ pc = "build"
    /\ ~client
    /\ segments' = LocalSegments(seg_result.value, EffectiveStylePrompt, text_type)
    /\ pc' = "respond"
    /\ UNCHANGED <<truncate_max_length, truncated, theme_analysis, compose_outcomes, content_analysis, unified_style, demo_log, backend_outcomes, text, text_type, style_prompt, max_segments, client, service_type,
                   started, seg_result, prompt_result, llm, response, images,
                   sent_prompts>>

\* analyze_text_with_doubao with a client: the LLM call, the parsing of its answer,
\* and the local fallback
CallDoubao ==
    /\ pc = "build"
    /\ client
    /\ \E answer \in LLMAnswers :
          /\ llm' = answer
          /\ segments' = SegmentsWithClient(answer, seg_result.value,
                                            EffectiveStylePrompt, text_type)
    /\ started' = started \cup {"llm"}
    /\ pc' = "respond"
    /\ UNCHANGED <<truncate_max_length, truncated, theme_analysis, compose_outcomes, content_analysis, unified_style, demo_log, backend_outcomes, text, text_type, style_prompt, max_segments, client, service_type,
                   seg_result, prompt_result, response, images, sent_prompts>>

\* analyze_text: the limit max_segments and the TextAnalysisResponse
Respond ==
    /\ pc = "respond"
    /\ LET limited == IF max_segments # 0 /\ Len(segments) > max_segments
                      THEN Slice(segments, 0, max_segments) ELSE segments
       IN  response' = [status |-> 200, segments |-> limited, total_count |-> Len(limited),
                        estimated_time |-> Len(limited) * 30]
    /\ pc' = "responded"
    /\ UNCHANGED <<truncate_max_length, truncated, theme_analysis, compose_outcomes, content_analysis, unified_style, demo_log, backend_outcomes, text, text_type, style_prompt, max_segments, client, service_type,
                   started, seg_result, prompt_result, llm, segments, images,
                   sent_prompts>>

-----------------------------------------------------------------------------
(* generate_images_with_seedream.  A URL is modelled by what determines it. *)

\* the URL the remote image backend returned for a prompt
BackendUrl(prompt) == [kind |-> "backend", prompt |-> prompt]

\* f"https://picsum.photos/{size}?random={n}"
PicsumUrl(size, n) == [kind |-> "picsum", size |-> size, random |-> n]

\* f"https://picsum.photos/800/600?random={hash(prompt) % 10000}"
PicsumHashUrl(prompt) == [kind |-> "picsum_hash", prompt |-> prompt]

\* the URL _generate_demo_image(prompt, segment_id) selects
DemoImageUrl(prompt, segment_id) ==
    [kind |-> "demo", prompt |-> prompt, segment_id |-> segment_id]

\* the data URI compose_image_text builds from a downloaded image
ComposedDataUri(image_url, content, summary) ==
    [kind |-> "data_uri", image_url |-> image_url, content |-> content,
     summary |-> summary]

GeneratedImage(segment_id, image_url, thumbnail_url, status) ==
    [segment_id |-> segment_id, image_url |-> image_url,
     thumbnail_url |-> thumbnail_url, status |-> status]

\* combined_prompt = f"{style_prompt}, {segment.image_prompt}"
CombinedPrompt(hint, segment) == hint \o <<44, 32>> \o segment.image_prompt

\* the GeneratedImage of one segment when a client is configured, by what
\* client.images.generate does: "data" and "images" are the two answer formats
\* with an image, "empty" an answer without one, "raises" an exception
ImageWithClient(segment, outcome, hint) ==
    IF outcome \in {"data", "images"}
    THEN GeneratedImage(segment.id, BackendUrl(CombinedPrompt(hint, segment)),
                        BackendUrl(CombinedPrompt(hint, segment)), "completed")
    ELSE IF outcome = "empty"
    THEN GeneratedImage(segment.id, PicsumUrl("600/800", segment.id + 100),
                        PicsumUrl("150/200", segment.id + 100), "failed")
    ELSE GeneratedImage(segment.id, PicsumUrl("600/800", segment.id + 200),
                        PicsumUrl("150/200", segment.id + 200), "failed")

\* segment.image_prompt if segment.image_prompt else f"{style_prompt}，{segment.content[:100]}..."
DemoPrompt(segment, hint) ==
    IF segment.image_prompt # <<>> THEN segment.image_prompt
    ELSE hint \o <<65292>> \o Slice(segment.content, 0, 100) \o <<46, 46, 46>>

\* ImageGenerationService.generate_image(prompt, segment_id) when no client is set:
\* "volcano" needs the client, so it takes the demo branch; a failing OpenAI call
\* is caught and replaced by the demo image
GenerateImageUrl(service, prompt, segment_id, backend_ok) ==
    IF service = "openai"
    THEN IF backend_ok THEN BackendUrl(prompt) ELSE DemoImageUrl(prompt, segment_id)
    ELSE IF service \in {"baidu", "ali"} THEN PicsumHashUrl(prompt)
    ELSE DemoImageUrl(prompt, segment_id)

\* compose_image_text with a drawing step whose exception is swallowed: the canvas
\* is encoded as it is
ComposeImageTextSwallowsDrawError(image_url, content, summary, failed_step) ==
    IF failed_step \in {"download", "status", "decode", "encode"} THEN image_url
    ELSE ComposedDataUri(image_url, content, summary)

\* ImageComposer.compose_image_text.  The whole body is one try block; failed_step
\* names the first statement group that raises ("none": no statement raises):
\*   "download"  requests.get(image_url, timeout=10) raises
\*   "status"    response.status_code != 200, so the body raises Exception
\*   "decode"    Image.open(io.BytesIO(response.content)) raises
\*   "draw"      resize / crop / paste / text drawing raises
\*   "encode"    canvas.save(..., format='JPEG') or base64 encoding raises
\* `except Exception` returns image_url; the last statement of the try block
\* returns the data URI
ComposeImageText(image_url, content, summary, failed_step) ==
    IF failed_step = "download" THEN image_url
    ELSE IF failed_step = "status" THEN image_url
    ELSE IF failed_step = "decode" THEN image_url
    ELSE IF failed_step = "draw" THEN image_url
    ELSE IF failed_step = "encode" THEN image_url
    ELSE ComposedDataUri(image_url, content, summary)

\* what the backend call of generate_image did: only the OpenAI branch calls a
\* remote backend ("data": it answered with an image, "raises": the call failed);
\* the other branches call none
BackendOutcome(service, backend_ok) ==
    IF service = "openai" THEN (IF backend_ok THEN "data" ELSE "raises") ELSE "none"

\* what a call of compose_image_text can meet: no failure, or the first failing step
ComposeOutcomes == {"none", "download", "status", "decode", "draw", "encode"}

\* the GeneratedImage of one segment when no client is configured
ImageWithoutClient(segment, service, hint, backend_ok, failed_step) ==
    LET image_prompt == DemoPrompt(segment, hint)
        original_image_url == GenerateImageUrl(service, image_prompt, segment.id, backend_ok)
        composed_image_url == ComposeImageText(original_image_url, segment.content,
                                               segment.summary, failed_step)
    IN  GeneratedImage(segment.id, composed_image_url, composed_image_url, "completed")

\* the segments an image request is made of
ImageSegmentCatalog ==
    { \* '学习的方法和步骤'
      [ id |-> 1, content |-> <<23398, 20064, 30340, 26041, 27861, 21644, 27493, 39588>>,
        summary |-> GenerateLocalSummary(<<23398, 20064, 30340, 26041, 27861, 21644, 27493, 39588>>, 1, descriptive),
        image_prompt |-> GenerateXiaohongshuPrompt(<<23398, 20064, 30340, 26041, 27861, 21644, 27493, 39588>>,
                                                   DefaultStylePrompt, descriptive) ],
      \* '今天的阳光洒在窗台上很温暖也很舒适呀。'
      [ id |-> 2, content |-> <<20170, 22825, 30340, 38451, 20809, 27922, 22312, 31383, 21488, 19978, 24456, 28201, 26262, 20063, 24456, 33298, 36866, 21568, 12290>>,
        summary |-> GenerateLocalSummary(<<20170, 22825, 30340, 38451, 20809, 27922, 22312, 31383, 21488, 19978, 24456, 28201, 26262, 20063, 24456, 33298, 36866, 21568, 12290>>, 2, narrative),
        image_prompt |-> GenerateXiaohongshuPrompt(<<20170, 22825, 30340, 38451, 20809, 27922, 22312, 31383, 21488, 19978, 24456, 28201, 26262, 20063, 24456, 33298, 36866, 21568, 12290>>,
                                                   DefaultStylePrompt, narrative) ],
      \* a segment without an image prompt
      [ id |-> 3, content |-> Fill(120, 2), summary |-> <<25688, 35201>>, image_prompt |-> <<>> ] }

ImageRequestSegments == UNION {[1..n -> ImageSegmentCatalog] : n \in 0..MaxImageSegments}

\* request.style_prompt of an image request: the default hint, a hint of 200 characters
ImageStyleHints == { DefaultStylePrompt, Fill(120, 200) }

\* IMAGE_GENERATION_SERVICE
ServiceTypes == {"demo", "openai", "baidu"}

\* generate_images: the validation of the request; its HTTPException(400) is raised
\* inside the try block and re-raised as HTTPException(500) by `except Exception`
ValidateImagesRequest ==
    /\ pc = "images_request"
    /\ IF segments = <<>>
       THEN response' = ErrorResponse(500) /\ pc' = "images_responded"
       ELSE response' = response /\ pc' = "images"
    /\ UNCHANGED <<truncate_max_length, truncated, theme_analysis, compose_outcomes, content_analysis, unified_style, demo_log, backend_outcomes, text, text_type, style_prompt, max_segments, client, service_type,
                   started, seg_result, prompt_result, llm, segments, images,
                   sent_prompts>>

\* one iteration of `for segment in segments` with a client: the combined prompt
\* goes to client.images.generate
GenerateImageWithClient ==
    /\ pc = "images"
    /\ client
    /\ Len(images) < Len(segments)
    /\ LET segment == segments[Len(images) + 1]
       IN  /\ sent_prompts' = Append(sent_prompts, CombinedPrompt(style_prompt, segment))
           /\ \E outcome \in {"data", "images", "empty", "raises"} :
                 /\ images' = Append(images, ImageWithClient(segment, outcome, style_prompt))
                 /\ backend_outcomes' = Append(backend_outcomes, outcome)
    /\ UNCHANGED <<truncate_max_length, truncated, theme_analysis, compose_outcomes, content_analysis, unified_style, demo_log, pc, text, text_type, style_prompt, max_segments, client, service_type,
                   started, seg_result, prompt_result, llm, segments, response>>

\* one iteration of `for segment in segments` without a client
GenerateImageWithoutClient ==
    /\ pc = "images"
    /\ ~client
    /\ Len(images) < Len(segments)
    /\ LET segment == segments[Len(images) + 1]
       IN  /\ sent_prompts' = IF service_type = "openai"
                              THEN Append(sent_prompts, DemoPrompt(segment, style_prompt))
                              ELSE sent_prompts
           /\ \E backend_ok \in BOOLEAN, failed_step \in ComposeOutcomes :
                 /\ images' = Append(images, ImageWithoutClient(segment, service_type,
                                                style_prompt, backend_ok, failed_step))
                 /\ backend_outcomes' = Append(backend_outcomes,
                                               BackendOutcome(service_type, backend_ok))
                 /\ compose_outcomes' = Append(compose_outcomes, failed_step)
    /\ UNCHANGED <<truncate_max_length, truncated, theme_analysis, content_analysis, unified_style, demo_log, pc, text, text_type, style_prompt, max_segments, client, service_type,
                   started, seg_result, prompt_result, llm, segments, response>>

\* generate_images with a loop that a failed segment ends: the images made so far
\* are the answer
RespondImagesStopAtFailure ==
    /\ pc = "images"
    /\ \/ Len(images) = Len(segments)
       \/ images # <<>> /\ images[Len(images)].status = "failed"
    /\ response' = [status |-> 200, images |-> images, total_count |-> Len(images)]
    /\ pc' = "images_responded"
    /\ UNCHANGED <<truncate_max_length, truncated, theme_analysis, compose_outcomes, content_analysis, unified_style, demo_log, backend_outcomes, text,
                   text_type, style_prompt, max_segments, client, service_type,
                   started, seg_result, prompt_result, llm, segments, images,
                   sent_prompts>>

\* generate_images: the ImageGenerationResponse
RespondImages ==
    /\ pc = "images"
    /\ Len(images) = Len(segments)
    /\ response' = [status |-> 200, images |-> images, total_count |-> Len(images)]
    /\ pc' = "images_responded"
    /\ UNCHANGED <<truncate_max_length, truncated, theme_analysis, compose_outcomes, content_analysis, unified_style, demo_log, backend_outcomes, text, text_type, style_prompt, max_segments, client, service_type,
                   started, seg_result, prompt_result, llm, segments, images,
                   sent_prompts>>

-----------------------------------------------------------------------------
(* The service: one request, of either endpoint. *)

InitAnalyze ==
    /\ pc = "request"
    /\ text \in EndpointTexts
    /\ style_prompt \in RequestStyleHints
    /\ max_segments \in RequestMaxSegments
    /\ client \in BOOLEAN
    /\ service_type = "demo"
    /\ segments = <<>>

InitImages ==
    /\ pc = "images_request"
    /\ text = <<>>
    /\ style_prompt \in ImageStyleHints
    /\ max_segments = 10
    /\ client \in BOOLEAN
    /\ service_type \in ServiceTypes
    /\ segments \in ImageRequestSegments

Init ==
    /\ InitAnalyze \/ InitImages
    /\ text_type = <<>>
    /\ started = {}
    /\ seg_result = NoResult
    /\ prompt_result = <<>>
    /\ llm = NoLLM
    /\ response = NoResponse
    /\ images = <<>>
    /\ sent_prompts = <<>>
    /\ content_analysis = NoCoreInfo
    /\ unified_style = <<>>
    /\ demo_log = <<>>
    /\ backend_outcomes = <<>>
    /\ compose_outcomes = <<>>
    /\ truncate_max_length = 0
    /\ truncated = <<>>
    /\ theme_analysis = <<>>

Next ==
    \/ ValidateRequest
    \/ DetectTextType
    \/ SegmentText
    \/ BuildLocalSegments
    \/ CallDoubao
    \/ Respond
    \/ ValidateImagesRequest
    \/ GenerateImageWithClient
    \/ GenerateImageWithoutClient
    \/ RespondImages

Spec == Init /\ [][Next]_vars

-----------------------------------------------------------------------------
(* Properties of the two endpoints *)

\* the request text analyze_text rejects
InvalidText(t) == Len(Strip(t)) = 0 \/ Len(t) > 10000

\* C1: the analyze-text endpoint answers a request whose text is empty after
\* trimming, or longer than 10,000 characters, with an HTTP 4xx status, and no
\* classification, segmentation or LLM call was started for it.
C1_InvalidTextGetsClientError ==
    (pc = "responded" /\ InvalidText(text))
        => (response.status \in 400..499 /\ started = {})

\* C5: the ids of the TextSegments analyze_text_with_doubao returns are
\* 1, 2, ..., n in list order, whether built locally or from a parsed LLM answer.
C5_IdsAreOneToN ==
    pc = "respond" => \A i \in 1..Len(segments) : segments[i].id = i

\* C6: the content of every TextSegment analyze_text_with_doubao returns is a
\* non-empty contiguous substring of the request's text, whatever the LLM answers.
C6_ContentIsSubstringOfText ==
    pc = "respond" =>
        \A i \in 1..Len(segments) :
            /\ segments[i].content # <<>>
            /\ IsSubstring(segments[i].content, text)

\* C7: every prompt attached to a returned TextSegment and every prompt sent to
\* an image backend has at most 300 characters.
C7_PromptsWithinBudget ==
    /\ pc = "respond" => \A i \in 1..Len(segments) : Len(segments[i].image_prompt) <= 300
    /\ \A k \in 1..Len(sent_prompts) : Len(sent_prompts[k]) <= 300

-----------------------------------------------------------------------------
(* _determine_unified_style as a function of its arguments, under SpecStyle. *)

\* style hints handed to the resolver
ResolverHints ==
    { <<>>, DefaultStylePrompt,
      \* '温馨治愈风格', '治愈系'
      <<28201, 39336, 27835, 24840, 39118, 26684>>, <<27835, 24840, 31995>>,
      \* '清新自然风格', '自然'
      <<28165, 26032, 33258, 28982, 39118, 26684>>, <<33258, 28982>>,
      \* '文艺复古风格', '复古'
      <<25991, 33402, 22797, 21476, 39118, 26684>>, <<22797, 21476>>,
      \* '活力青春风格', '青春'
      <<27963, 21147, 38738, 26149, 39118, 26684>>, <<38738, 26149>>,
      \* '青春温馨', '复古自然', '活力文艺': two keywords of different styles
      <<38738, 26149, 28201, 39336>>, <<22797, 21476, 33258, 28982>>, <<27963, 21147, 25991, 33402>>,
      \* '赛博朋克', '现代简约风格 ' (the default followed by a space)
      <<36187, 21338, 26379, 20811>>, <<29616, 20195, 31616, 32422, 39118, 26684, 32>> }

InitStyle ==
    /\ pc = "call"
    /\ text \in PromptTexts
    /\ text_type \in TextTypes
    /\ style_prompt \in ResolverHints
    /\ content_analysis = ExtractArticleCoreInfo(text)
    /\ unified_style = <<>>
    /\ max_segments = 10
    /\ service_type = "demo"
    /\ started = {}
    /\ seg_result = NoResult
    /\ prompt_result = <<>>
    /\ client = FALSE
    /\ llm = NoLLM
    /\ segments = <<>>
    /\ response = NoResponse
    /\ images = <<>>
    /\ sent_prompts = <<>>
    /\ demo_log = <<>>
    /\ backend_outcomes = <<>>
    /\ compose_outcomes = <<>>
    /\ truncate_max_length = 0
    /\ truncated = <<>>
    /\ theme_analysis = <<>>

\* the call _determine_unified_style(core_info, text_type, style_prompt)
DetermineUnifiedStyleCall ==
    /\ pc = "call"
    /\ unified_style' = DetermineUnifiedStyle(content_analysis, text_type, style_prompt)
    /\ pc' = "returned"
    /\ UNCHANGED <<truncate_max_length, truncated, theme_analysis, compose_outcomes, content_analysis, demo_log, backend_outcomes, text, text_type,
                   style_prompt, max_segments, client, service_type, started,
                   seg_result, prompt_result, llm, segments, response, images,
                   sent_prompts>>

SpecStyle == InitStyle /\ [][DetermineUnifiedStyleCall]_vars

\* the style a hint names, by the ordered keyword rule
HintStyle(hint) ==
    IF Contains(hint, <<28201, 39336>>) \/ Contains(hint, <<27835, 24840>>) THEN WarmHealing
    ELSE IF Contains(hint, <<28165, 26032>>) \/ Contains(hint, <<33258, 28982>>) THEN FreshNatural
    ELSE IF Contains(hint, <<25991, 33402>>) \/ Contains(hint, <<22797, 21476>>) THEN LiteraryRetro
    ELSE IF Contains(hint, <<27963, 21147>>) \/ Contains(hint, <<38738, 26149>>) THEN YouthfulEnergetic
    ELSE ModernMinimal

\* C11: for a non-empty hint other than the default "现代简约风格" the resolver
\* returns the style the hint names by the ordered keyword rule (温馨/治愈, then
\* 清新/自然, then 文艺/复古, then 活力/青春, else 现代简约), whatever the content
\* analysis holds; the hint "温馨治愈风格" gives 温馨治愈.
C11_HintDecidesStyle ==
    (pc = "returned" /\ style_prompt # <<>> /\ style_prompt # DefaultStylePrompt)
        => /\ unified_style = HintStyle(style_prompt)
           /\ style_prompt = <<28201, 39336, 27835, 24840, 39118, 26684>> => unified_style = WarmHealing

\* the resolver returned 温馨治愈 for the hint "温馨治愈风格" on a content analysis
\* that by itself resolves to another style
C11_Witness ==
    /\ pc = "returned"
    /\ style_prompt = <<28201, 39336, 27835, 24840, 39118, 26684>>
    /\ DetermineUnifiedStyle(content_analysis, text_type, <<>>) # WarmHealing
    /\ unified_style = WarmHealing

-----------------------------------------------------------------------------
(* _detect_text_type as a function of its argument, under SpecDetect. *)

\* largest number of fragments of an enumerated classifier text
MaxDetectFrags == 3

\* two keywords of each list, and a character that is part of no keyword
DetectFragments ==
    { \* '故事', '情节'
      <<25925, 20107>>, <<24773, 33410>>,
      \* '观点', '因为'
      <<35266, 28857>>, <<22240, 20026>>,
      \* '介绍', '方法'
      <<20171, 32461>>, <<26041, 27861>>,
      \* 'x'
      <<120>> }

\* the texts made of 1..MaxDetectFrags fragments
DetectTexts ==
    UNION { { Concat(f) : f \in [1..n -> DetectFragments] } : n \in 1..MaxDetectFrags }

InitDetect ==
    /\ pc = "call"
    /\ text \in DetectTexts
    /\ text_type = <<>>
    /\ style_prompt = <<>>
    /\ max_segments = 10
    /\ service_type = "demo"
    /\ started = {}
    /\ seg_result = NoResult
    /\ prompt_result = <<>>
    /\ client = FALSE
    /\ llm = NoLLM
    /\ segments = <<>>
    /\ response = NoResponse
    /\ images = <<>>
    /\ sent_prompts = <<>>
    /\ content_analysis = NoCoreInfo
    /\ unified_style = <<>>
    /\ demo_log = <<>>
    /\ backend_outcomes = <<>>
    /\ compose_outcomes = <<>>
    /\ truncate_max_length = 0
    /\ truncated = <<>>
    /\ theme_analysis = <<>>

\* the call _detect_text_type(text)
DetectTextTypeCall ==
    /\ pc = "call"
    /\ text_type' = DetectTextTypeOf(text)
    /\ pc' = "returned"
    /\ UNCHANGED <<truncate_max_length, truncated, theme_analysis, compose_outcomes, content_analysis, unified_style, demo_log, backend_outcomes, text,
                   style_prompt, max_segments, client, service_type, started,
                   seg_result, prompt_result, llm, segments, response, images,
                   sent_prompts>>

SpecDetect == InitDetect /\ [][DetectTextTypeCall]_vars

\* no keyword of the three classifier lists occurs in t
NoKeywordOccurs(t) ==
    /\ KeywordScore(t, narrative_keywords) = 0
    /\ KeywordScore(t, argumentative_keywords) = 0
    /\ KeywordScore(t, descriptive_keywords) = 0

\* C12: when the text contains none of the keywords of the three lists,
\* _detect_text_type returns descriptive.
C12_NoKeywordGivesDescriptive ==
    (pc = "returned" /\ NoKeywordOccurs(text)) => text_type = descriptive

\* C12 (amended): when the text contains none of the keywords of the three lists,
\* the narrative score 0 is at least both other scores, so _detect_text_type
\* returns narrative.
C12_NoKeywordGivesNarrative ==
    (pc = "returned" /\ NoKeywordOccurs(text)) => text_type = narrative

\* the classifier returned narrative for a text without any keyword
C12_Witness ==
    /\ pc = "returned"
    /\ NoKeywordOccurs(text)
    /\ text_type = narrative

\* C13: _detect_text_type returns one of the three tags; it returns narrative when
\* the narrative score is at least both other scores, otherwise argumentative when
\* the argumentative score is at least the descriptive score, otherwise descriptive,
\* each score counting the keywords of a list that occur in the text, once each.
C13_TieBreakOrder ==
    pc = "returned" =>
        LET n == KeywordScore(text, narrative_keywords)
            a == KeywordScore(text, argumentative_keywords)
            d == KeywordScore(text, descriptive_keywords)
        IN  /\ text_type \in TextTypes
            /\ (n >= a /\ n >= d) => text_type = narrative
            /\ (~(n >= a /\ n >= d) /\ a >= d) => text_type = argumentative
            /\ (~(n >= a /\ n >= d) /\ ~(a >= d)) => text_type = descriptive

\* the classifier returned argumentative on a tie of the argumentative and the
\* descriptive score above the narrative score, a keyword occurring twice
C13_Witness ==
    /\ pc = "returned"
    /\ text = <<35266, 28857, 35266, 28857, 20171, 32461>>
    /\ KeywordScore(text, argumentative_keywords) = 1
    /\ KeywordScore(text, descriptive_keywords) = 1
    /\ KeywordScore(text, narrative_keywords) = 0
    /\ text_type = argumentative

-----------------------------------------------------------------------------
(* hashlib.md5 and the UTF-8 encoding, as _generate_demo_image uses them.     *)
(* A 32-bit word is the pair <<high half, low half>> of its 16-bit halves.    *)

\* s.encode('utf-8'): the bytes of a sequence of code points
RECURSIVE Utf8(_)
Utf8(s) ==
    IF s = <<>> THEN <<>>
    ELSE LET c == Head(s)
             bytes == IF c < 128 THEN << c >>
                      ELSE IF c < 2048 THEN << 192 + c \div 64, 128 + (c % 64) >>
                      ELSE IF c < 65536
                           THEN << 224 + c \div 4096, 128 + ((c \div 64) % 64),
                                   128 + (c % 64) >>
                           ELSE << 240 + c \div 262144, 128 + ((c \div 4096) % 64),
                                   128 + ((c \div 64) % 64), 128 + (c % 64) >>
         IN  bytes \o Utf8(Tail(s))

\* bitwise and of two 16-bit numbers
RECURSIVE And16(_, _)
And16(a, b) ==
    IF a = 0 \/ b = 0 THEN 0
    ELSE (a % 2) * (b % 2) + 2 * And16(a \div 2, b \div 2)

\* the mixing function of operation i on one 16-bit half of B, C and D:
\* (B and C) or (not B and D); (D and B) or (not D and C); B xor C xor D;
\* C xor (B or not D).  a or b = a + b - (a and b), a xor b = a + b - 2 (a and b).
Md5F16(i, b, c, d) ==
    IF i < 16 THEN And16(b, c) + And16(65535 - b, d)
    ELSE IF i < 32 THEN And16(d, b) + And16(65535 - d, c)
    ELSE IF i < 48 THEN LET x == b + c - 2 * And16(b, c)
                        IN  x + d - 2 * And16(x, d)
    ELSE LET o == b + (65535 - d) - And16(b, 65535 - d)
         IN  c + o - 2 * And16(c, o)

\* (x + y) mod 2^32
Add32(x, y) ==
    LET lo == x[2] + y[2]
    IN  << (x[1] + y[1] + lo \div 65536) % 65536, lo % 65536 >>

\* x rotated left by c bits, 0 < c < 32
RotateLeft32(x, c) ==
    LET y == IF c >= 16 THEN << x[2], x[1] >> ELSE x
        r == c % 16
    IN  IF r = 0 THEN y
        ELSE << ((y[1] * 2^r) % 65536) + y[2] \div 2^(16 - r),
                ((y[2] * 2^r) % 65536) + y[1] \div 2^(16 - r) >>

\* operation i (0..63) of the block at byte offset off on the state <<A, B, C, D>>;
\* the message word g is read little-endian
Md5Step(st, m, off, i) ==
    LET \* floor(2^32 * abs(sin(i + 1))), i = 0..63
        K ==
            << <<55146, 42104>>, <<59591, 46934>>, <<9248, 28891>>, <<49597, 52974>>,
            <<62844, 4015>>, <<18311, 50730>>, <<43056, 17939>>, <<64838, 38145>>,
            <<27008, 39128>>, <<35652, 63407>>, <<65535, 23473>>, <<35164, 55230>>,
            <<27536, 4386>>, <<64920, 29075>>, <<42617, 17294>>, <<18868, 2081>>,
            <<63006, 9570>>, <<49216, 45888>>, <<9822, 23121>>, <<59830, 51114>>,
            <<54831, 4189>>, <<580, 5203>>, <<55457, 59009>>, <<59347, 64456>>,
            <<8673, 52710>>, <<49975, 2006>>, <<62677, 3463>>, <<17754, 5357>>,
            <<43491, 59653>>, <<64751, 41976>>, <<26479, 729>>, <<36138, 19594>>,
            <<65530, 14658>>, <<34673, 63105>>, <<28061, 24866>>, <<64997, 14348>>,
            <<42174, 59972>>, <<19422, 53161>>, <<63163, 19296>>, <<48831, 48240>>,
            <<10395, 32454>>, <<60065, 10234>>, <<54511, 12421>>, <<1160, 7429>>,
            <<55764, 53305>>, <<59099, 39397>>, <<8098, 31992>>, <<50348, 22117>>,
            <<62505, 8772>>, <<17194, 65431>>, <<43924, 9127>>, <<64659, 41017>>,
            <<25947, 22979>>, <<36620, 52370>>, <<65519, 62589>>, <<34180, 24017>>,
            <<28584, 32335>>, <<65068, 59104>>, <<41729, 17172>>, <<19976, 4513>>,
            <<63315, 32386>>, <<48442, 62005>>, <<10967, 53947>>, <<60294, 54161>> >>
        \* the per-operation shift amounts
        S ==
            << 7, 12, 17, 22, 7, 12, 17, 22, 7, 12, 17, 22, 7, 12, 17, 22, 5, 9, 14, 20, 5, 9,
            14, 20, 5, 9, 14, 20, 5, 9, 14, 20, 4, 11, 16, 23, 4, 11, 16, 23, 4, 11, 16, 23,
            4, 11, 16, 23, 6, 10, 15, 21, 6, 10, 15, 21, 6, 10, 15, 21, 6, 10, 15, 21 >>
        A == st[1]
        B == st[2]
        C == st[3]
        D == st[4]
        F == << Md5F16(i, B[1], C[1], D[1]), Md5F16(i, B[2], C[2], D[2]) >>
        g == IF i < 16 THEN i
             ELSE IF i < 32 THEN (5 * i + 1) % 16
             ELSE IF i < 48 THEN (3 * i + 5) % 16
             ELSE (7 * i) % 16
        p == off + 4 * g
        word == << m[p + 3] + 256 * m[p + 4], m[p + 1] + 256 * m[p + 2] >>
        sum == Add32(Add32(Add32(A, F), K[i + 1]), word)
    IN  << D, Add32(B, RotateLeft32(sum, S[i + 1])), B, C >>

\* the 64 operations of one block, applied in order to the four-word state
RECURSIVE Md5Rounds(_, _, _, _)
Md5Rounds(st, m, off, i) ==
    IF Len(st) = 4 /\ i < 64 THEN Md5Rounds(Md5Step(st, m, off, i), m, off, i + 1) ELSE st

RECURSIVE Md5Blocks(_, _, _)
Md5Blocks(st, m, off) ==
    IF off >= Len(m) THEN st
    ELSE LET r == Md5Rounds(st, m, off, 0)
         IN  Md5Blocks(<< Add32(st[1], r[1]), Add32(st[2], r[2]),
                          Add32(st[3], r[3]), Add32(st[4], r[4]) >>, m, off + 64)

\* hashlib.md5(bytes).digest(): the message is padded with 0x80, zeros up to
\* 56 mod 64 and the bit length in 8 bytes; the digest is the four state words,
\* each little-endian
Md5Digest(bytes) ==
    LET n      == Len(bytes)
        zeros  == (119 - (n % 64)) % 64
        bits   == 8 * n
        padded == bytes \o << 128 >> \o [i \in 1..zeros |-> 0]
                  \o << bits % 256, (bits \div 256) % 256, (bits \div 65536) % 256,
                        (bits \div 16777216) % 256, 0, 0, 0, 0 >>
        h == Md5Blocks(<< <<26437, 8961>>, <<61389, 43913>>,
                          <<39098, 56574>>, <<4146, 21622>> >>, padded, 0)
    IN  [k \in 1..16 |->
            LET w == h[(k - 1) \div 4 + 1]
                half == IF (k - 1) % 4 < 2 THEN w[2] ELSE w[1]
            IN  IF (k - 1) % 2 = 0 THEN half % 256 ELSE half \div 256]

\* int(hexdigest, 16) % n: the digest read as a big-endian number, modulo n
RECURSIVE BigEndianMod(_, _, _, _)
BigEndianMod(digest, i, acc, n) ==
    IF i > Len(digest) THEN acc
    ELSE BigEndianMod(digest, i + 1, (acc * 256 + digest[i]) % n, n)

-----------------------------------------------------------------------------
(* ImageGenerationService._generate_demo_image: the theme table, the scoring   *)
(* of a prompt against it, the image pools and the choice of one image.        *)

\* enhanced_theme_mapping, in the order the dict literal lists its themes
enhanced_theme_mapping ==
    <<
      \* nature_mountain
      \* keywords: 山 山峰 山脉 登山 远足 自然风光 户外 徒步 山景 高山 雪山 山顶 峰峦 巍峨 壮丽
      \* semantic: 雄伟 壮观 高耸 险峻 云雾缭绕 山川 峻岭 巅峰 登高 俯瞰
      \* emotions: 震撼 敬畏 征服 挑战 坚毅
      [theme |-> <<110, 97, 116, 117, 114, 101, 95, 109, 111, 117, 110, 116, 97, 105, 110>>,
       keywords |-> << <<23665>>, <<23665, 23792>>, <<23665, 33033>>, <<30331, 23665>>,
          <<36828, 36275>>, <<33258, 28982, 39118, 20809>>, <<25143, 22806>>,
          <<24466, 27493>>, <<23665, 26223>>, <<39640, 23665>>, <<38634, 23665>>,
          <<23665, 39030>>, <<23792, 23782>>, <<24013, 23784>>, <<22766, 20029>> >>,
       semantic |-> << <<38596, 20255>>, <<22766, 35266>>, <<39640, 32824>>, <<38505, 23803>>,
          <<20113, 38654, 32557, 32469>>, <<23665, 24029>>, <<23803, 23725>>,
          <<24005, 23792>>, <<30331, 39640>>, <<20463, 30640>> >>,
       emotions |-> << <<38663, 25788>>, <<25964, 30031>>, <<24449, 26381>>, <<25361, 25112>>,
          <<22362, 27589>> >>],
      \* nature_ocean
      \* keywords: 海 海洋 海边 海滩 波浪 海水 沙滩 海岸 蓝色 水面 大海 海浪 潮汐 海风
      \* semantic: 辽阔 深邃 波涛 浪花 海天一色 碧波 汹涌 宁静 海鸥 帆船
      \* emotions: 自由 宁静 浪漫 思考 放松
      [theme |-> <<110, 97, 116, 117, 114, 101, 95, 111, 99, 101, 97, 110>>,
       keywords |-> << <<28023>>, <<28023, 27915>>, <<28023, 36793>>, <<28023, 28393>>,
          <<27874, 28010>>, <<28023, 27700>>, <<27801, 28393>>, <<28023, 23736>>,
          <<34013, 33394>>, <<27700, 38754>>, <<22823, 28023>>, <<28023, 28010>>,
          <<28526, 27728>>, <<28023, 39118>> >>,
       semantic |-> << <<36797, 38420>>, <<28145, 36995>>, <<27874, 28059>>, <<28010, 33457>>,
          <<28023, 22825, 19968, 33394>>, <<30887, 27874>>, <<27769, 28044>>,
          <<23425, 38745>>, <<28023, 40485>>, <<24070, 33337>> >>,
       emotions |-> << <<33258, 30001>>, <<23425, 38745>>, <<28010, 28459>>, <<24605, 32771>>,
          <<25918, 26494>> >>],
      \* nature_forest
      \* keywords: 森林 树林 绿色 植物 叶子 树木 自然 绿意 清新 大树 古树 林间 丛林 绿荫
      \* semantic: 茂密 幽静 生机 翠绿 阳光透过 鸟语花香 小径 清香 氧气 生态
      \* emotions: 平静 治愈 清新 生机 和谐
      [theme |-> <<110, 97, 116, 117, 114, 101, 95, 102, 111, 114, 101, 115, 116>>,
       keywords |-> << <<26862, 26519>>, <<26641, 26519>>, <<32511, 33394>>, <<26893, 29289>>,
          <<21494, 23376>>, <<26641, 26408>>, <<33258, 28982>>, <<32511, 24847>>,
          <<28165, 26032>>, <<22823, 26641>>, <<21476, 26641>>, <<26519, 38388>>,
          <<19995, 26519>>, <<32511, 33643>> >>,
       semantic |-> << <<33538, 23494>>, <<24189, 38745>>, <<29983, 26426>>, <<32736, 32511>>,
          <<38451, 20809, 36879, 36807>>, <<40479, 35821, 33457, 39321>>,
          <<23567, 24452>>, <<28165, 39321>>, <<27687, 27668>>, <<29983, 24577>> >>,
       emotions |-> << <<24179, 38745>>, <<27835, 24840>>, <<28165, 26032>>, <<29983, 26426>>,
          <<21644, 35856>> >>],
      \* nature_flower
      \* keywords: 花 花朵 樱花 梅花 玫瑰 花园 花海 盛开 花瓣 花蕊 鲜花 花束 绽放 芬芳
      \* semantic: 娇艳 芬芳 绚烂 花香 蜜蜂 蝴蝶 花期 花语 美丽 色彩
      \* emotions: 美好 浪漫 温柔 纯真 爱情
      [theme |-> <<110, 97, 116, 117, 114, 101, 95, 102, 108, 111, 119, 101, 114>>,
       keywords |-> << <<33457>>, <<33457, 26421>>, <<27185, 33457>>, <<26757, 33457>>,
          <<29611, 29808>>, <<33457, 22253>>, <<33457, 28023>>, <<30427, 24320>>,
          <<33457, 29923>>, <<33457, 34122>>, <<40092, 33457>>, <<33457, 26463>>,
          <<32509, 25918>>, <<33452, 33459>> >>,
       semantic |-> << <<23047, 33395>>, <<33452, 33459>>, <<32474, 28866>>, <<33457, 39321>>,
          <<34588, 34562>>, <<34676, 34678>>, <<33457, 26399>>, <<33457, 35821>>,
          <<32654, 20029>>, <<33394, 24425>> >>,
       emotions |-> << <<32654, 22909>>, <<28010, 28459>>, <<28201, 26580>>, <<32431, 30495>>,
          <<29233, 24773>> >>],
      \* nature_sky
      \* keywords: 天空 云 蓝天 白云 晴天 日出 日落 夕阳 朝霞 晚霞 彩霞 阳光 云朵 天际
      \* semantic: 广阔 无垠 变幻 光影 色彩 云卷云舒 霞光 金辉 蔚蓝 纯净
      \* emotions: 希望 自由 梦想 开阔 向往
      [theme |-> <<110, 97, 116, 117, 114, 101, 95, 115, 107, 121>>,
       keywords |-> << <<22825, 31354>>, <<20113>>, <<34013, 22825>>, <<30333, 20113>>,
          <<26228, 22825>>, <<26085, 20986>>, <<26085, 33853>>, <<22805, 38451>>,
          <<26397, 38686>>, <<26202, 38686>>, <<24425, 38686>>, <<38451, 20809>>,
          <<20113, 26421>>, <<22825, 38469>> >>,
       semantic |-> << <<24191, 38420>>, <<26080, 22432>>, <<21464, 24187>>, <<20809, 24433>>,
          <<33394, 24425>>, <<20113, 21367, 20113, 33298>>, <<38686, 20809>>,
          <<37329, 36745>>, <<34074, 34013>>, <<32431, 20928>> >>,
       emotions |-> << <<24076, 26395>>, <<33258, 30001>>, <<26790, 24819>>, <<24320, 38420>>,
          <<21521, 24448>> >>],
      \* city_modern
      \* keywords: 城市 都市 现代 高楼 建筑 街道 都市风光 摩天大楼 现代建筑 玻璃幕墙 钢筋混凝土
      \* semantic: 繁华 现代化 科技感 都市节奏 商业区 CBD 天际线 灯火辉煌 车水马龙
      \* emotions: 活力 忙碌 现代 进步 竞争
      [theme |-> <<99, 105, 116, 121, 95, 109, 111, 100, 101, 114, 110>>,
       keywords |-> << <<22478, 24066>>, <<37117, 24066>>, <<29616, 20195>>, <<39640, 27004>>,
          <<24314, 31569>>, <<34903, 36947>>, <<37117, 24066, 39118, 20809>>,
          <<25705, 22825, 22823, 27004>>, <<29616, 20195, 24314, 31569>>,
          <<29627, 29827, 24149, 22681>>, <<38050, 31563, 28151, 20957, 22303>> >>,
       semantic |-> << <<32321, 21326>>, <<29616, 20195, 21270>>, <<31185, 25216, 24863>>,
          <<37117, 24066, 33410, 22863>>, <<21830, 19994, 21306>>, <<67, 66, 68>>,
          <<22825, 38469, 32447>>, <<28783, 28779, 36745, 29004>>,
          <<36710, 27700, 39532, 40857>> >>,
       emotions |-> << <<27963, 21147>>, <<24537, 30860>>, <<29616, 20195>>, <<36827, 27493>>,
          <<31454, 20105>> >>],
      \* city_street
      \* keywords: 街道 马路 路 街景 城市街道 行人 交通 繁华 十字路口 车流 人流 商店
      \* semantic: 熙熙攘攘 川流不息 红绿灯 斑马线 店铺 招牌 街头 都市生活
      \* emotions: 热闹 生活 忙碌 多彩 真实
      [theme |-> <<99, 105, 116, 121, 95, 115, 116, 114, 101, 101, 116>>,
       keywords |-> << <<34903, 36947>>, <<39532, 36335>>, <<36335>>, <<34903, 26223>>,
          <<22478, 24066, 34903, 36947>>, <<34892, 20154>>, <<20132, 36890>>,
          <<32321, 21326>>, <<21313, 23383, 36335, 21475>>, <<36710, 27969>>,
          <<20154, 27969>>, <<21830, 24215>> >>,
       semantic |-> << <<29081, 29081, 25880, 25880>>, <<24029, 27969, 19981, 24687>>,
          <<32418, 32511, 28783>>, <<26001, 39532, 32447>>, <<24215, 38138>>,
          <<25307, 29260>>, <<34903, 22836>>, <<37117, 24066, 29983, 27963>> >>,
       emotions |-> << <<28909, 38393>>, <<29983, 27963>>, <<24537, 30860>>, <<22810, 24425>>,
          <<30495, 23454>> >>],
      \* city_cafe
      \* keywords: 咖啡厅 咖啡 咖啡馆 温暖 惬意 休闲 下午茶 咖啡店 温馨 拿铁 卡布奇诺
      \* semantic: 慢生活 文艺 小资 聊天 阅读 音乐 香气 舒适 放松
      \* emotions: 惬意 温馨 放松 享受 文艺
      [theme |-> <<99, 105, 116, 121, 95, 99, 97, 102, 101>>,
       keywords |-> << <<21654, 21857, 21381>>, <<21654, 21857>>, <<21654, 21857, 39302>>,
          <<28201, 26262>>, <<24812, 24847>>, <<20241, 38386>>, <<19979, 21320, 33590>>,
          <<21654, 21857, 24215>>, <<28201, 39336>>, <<25343, 38081>>,
          <<21345, 24067, 22855, 35834>> >>,
       semantic |-> << <<24930, 29983, 27963>>, <<25991, 33402>>, <<23567, 36164>>, <<32842, 22825>>,
          <<38405, 35835>>, <<38899, 20048>>, <<39321, 27668>>, <<33298, 36866>>,
          <<25918, 26494>> >>,
       emotions |-> << <<24812, 24847>>, <<28201, 39336>>, <<25918, 26494>>, <<20139, 21463>>,
          <<25991, 33402>> >>],
      \* city_night
      \* keywords: 夜晚 夜景 灯光 霓虹 夜色 城市夜景 璀璨 霓虹灯 灯火通明 夜生活
      \* semantic: 绚烂 迷人 光影 夜市 酒吧 夜店 星光 月光 灯红酒绿
      \* emotions: 浪漫 神秘 活力 魅力 梦幻
      [theme |-> <<99, 105, 116, 121, 95, 110, 105, 103, 104, 116>>,
       keywords |-> << <<22812, 26202>>, <<22812, 26223>>, <<28783, 20809>>, <<38675, 34425>>,
          <<22812, 33394>>, <<22478, 24066, 22812, 26223>>, <<29824, 29864>>,
          <<38675, 34425, 28783>>, <<28783, 28779, 36890, 26126>>,
          <<22812, 29983, 27963>> >>,
       semantic |-> << <<32474, 28866>>, <<36855, 20154>>, <<20809, 24433>>, <<22812, 24066>>,
          <<37202, 21543>>, <<22812, 24215>>, <<26143, 20809>>, <<26376, 20809>>,
          <<28783, 32418, 37202, 32511>> >>,
       emotions |-> << <<28010, 28459>>, <<31070, 31192>>, <<27963, 21147>>, <<39749, 21147>>,
          <<26790, 24187>> >>],
      \* people_portrait
      \* keywords: 人物 肖像 面部 表情 眼神 人像 特写 面容 神情 五官 轮廓
      \* semantic: 深邃 专注 凝视 微表情 个性 气质 魅力 特征 神韵
      \* emotions: 专注 深沉 个性 魅力 真实
      [theme |-> <<112, 101, 111, 112, 108, 101, 95, 112, 111, 114, 116, 114, 97, 105, 116>>,
       keywords |-> << <<20154, 29289>>, <<32918, 20687>>, <<38754, 37096>>, <<34920, 24773>>,
          <<30524, 31070>>, <<20154, 20687>>, <<29305, 20889>>, <<38754, 23481>>,
          <<31070, 24773>>, <<20116, 23448>>, <<36718, 24275>> >>,
       semantic |-> << <<28145, 36995>>, <<19987, 27880>>, <<20957, 35270>>, <<24494, 34920, 24773>>,
          <<20010, 24615>>, <<27668, 36136>>, <<39749, 21147>>, <<29305, 24449>>,
          <<31070, 38901>> >>,
       emotions |-> << <<19987, 27880>>, <<28145, 27785>>, <<20010, 24615>>, <<39749, 21147>>,
          <<30495, 23454>> >>],
      \* people_happy
      \* keywords: 快乐 开心 笑容 微笑 欢乐 愉快 高兴 兴奋 喜悦 幸福 灿烂 甜美
      \* semantic: 阳光 灿烂 感染力 正能量 活力 青春 纯真 美好
      \* emotions: 快乐 幸福 满足 阳光 积极
      [theme |-> <<112, 101, 111, 112, 108, 101, 95, 104, 97, 112, 112, 121>>,
       keywords |-> << <<24555, 20048>>, <<24320, 24515>>, <<31505, 23481>>, <<24494, 31505>>,
          <<27426, 20048>>, <<24841, 24555>>, <<39640, 20852>>, <<20852, 22859>>,
          <<21916, 24742>>, <<24184, 31119>>, <<28799, 28866>>, <<29980, 32654>> >>,
       semantic |-> << <<38451, 20809>>, <<28799, 28866>>, <<24863, 26579, 21147>>,
          <<27491, 33021, 37327>>, <<27963, 21147>>, <<38738, 26149>>, <<32431, 30495>>,
          <<32654, 22909>> >>,
       emotions |-> << <<24555, 20048>>, <<24184, 31119>>, <<28385, 36275>>, <<38451, 20809>>,
          <<31215, 26497>> >>],
      \* people_sad
      \* keywords: 伤心 难过 悲伤 忧郁 沮丧 失落 眼泪 哭泣 忧伤 孤独 思念
      \* semantic: 忧郁 深沉 思考 回忆 怀念 感伤 眼泪 孤单
      \* emotions: 悲伤 忧郁 思念 孤独 感伤
      [theme |-> <<112, 101, 111, 112, 108, 101, 95, 115, 97, 100>>,
       keywords |-> << <<20260, 24515>>, <<38590, 36807>>, <<24754, 20260>>, <<24551, 37057>>,
          <<27822, 20007>>, <<22833, 33853>>, <<30524, 27882>>, <<21741, 27875>>,
          <<24551, 20260>>, <<23396, 29420>>, <<24605, 24565>> >>,
       semantic |-> << <<24551, 37057>>, <<28145, 27785>>, <<24605, 32771>>, <<22238, 24518>>,
          <<24576, 24565>>, <<24863, 20260>>, <<30524, 27882>>, <<23396, 21333>> >>,
       emotions |-> << <<24754, 20260>>, <<24551, 37057>>, <<24605, 24565>>, <<23396, 29420>>,
          <<24863, 20260>> >>],
      \* people_love
      \* keywords: 爱情 浪漫 情侣 恋人 拥抱 亲吻 甜蜜 温馨 爱 浪漫 约会 牵手
      \* semantic: 甜蜜 温馨 浪漫 幸福 相伴 依偎 深情 眷恋
      \* emotions: 爱情 浪漫 甜蜜 幸福 温暖
      [theme |-> <<112, 101, 111, 112, 108, 101, 95, 108, 111, 118, 101>>,
       keywords |-> << <<29233, 24773>>, <<28010, 28459>>, <<24773, 20387>>, <<24651, 20154>>,
          <<25317, 25265>>, <<20146, 21563>>, <<29980, 34588>>, <<28201, 39336>>,
          <<29233>>, <<28010, 28459>>, <<32422, 20250>>, <<29301, 25163>> >>,
       semantic |-> << <<29980, 34588>>, <<28201, 39336>>, <<28010, 28459>>, <<24184, 31119>>,
          <<30456, 20276>>, <<20381, 20558>>, <<28145, 24773>>, <<30519, 24651>> >>,
       emotions |-> << <<29233, 24773>>, <<28010, 28459>>, <<29980, 34588>>, <<24184, 31119>>,
          <<28201, 26262>> >>],
      \* people_friendship
      \* keywords: 友谊 朋友 友情 陪伴 一起 合影 友好 聚会 交谈 分享 支持
      \* semantic: 真诚 陪伴 支持 分享 快乐 信任 理解 珍贵
      \* emotions: 友谊 温暖 支持 快乐 珍贵
      [theme |-> <<112, 101, 111, 112, 108, 101, 95, 102, 114, 105, 101, 110, 100, 115, 104, 105, 112>>,
       keywords |-> << <<21451, 35850>>, <<26379, 21451>>, <<21451, 24773>>, <<38506, 20276>>,
          <<19968, 36215>>, <<21512, 24433>>, <<21451, 22909>>, <<32858, 20250>>,
          <<20132, 35848>>, <<20998, 20139>>, <<25903, 25345>> >>,
       semantic |-> << <<30495, 35802>>, <<38506, 20276>>, <<25903, 25345>>, <<20998, 20139>>,
          <<24555, 20048>>, <<20449, 20219>>, <<29702, 35299>>, <<29645, 36149>> >>,
       emotions |-> << <<21451, 35850>>, <<28201, 26262>>, <<25903, 25345>>, <<24555, 20048>>,
          <<29645, 36149>> >>],
      \* people_family
      \* keywords: 家庭 亲情 父母 孩子 家人 温馨 团聚 家 亲人 关爱 呵护
      \* semantic: 温馨 和睦 关爱 呵护 传承 责任 依靠 港湾
      \* emotions: 温馨 关爱 安全 归属 责任
      [theme |-> <<112, 101, 111, 112, 108, 101, 95, 102, 97, 109, 105, 108, 121>>,
       keywords |-> << <<23478, 24237>>, <<20146, 24773>>, <<29238, 27597>>, <<23401, 23376>>,
          <<23478, 20154>>, <<28201, 39336>>, <<22242, 32858>>, <<23478>>,
          <<20146, 20154>>, <<20851, 29233>>, <<21621, 25252>> >>,
       semantic |-> << <<28201, 39336>>, <<21644, 30566>>, <<20851, 29233>>, <<21621, 25252>>,
          <<20256, 25215>>, <<36131, 20219>>, <<20381, 38752>>, <<28207, 28286>> >>,
       emotions |-> << <<28201, 39336>>, <<20851, 29233>>, <<23433, 20840>>, <<24402, 23646>>,
          <<36131, 20219>> >>],
      \* life_home
      \* keywords: 家 家庭 房间 客厅 卧室 温馨 居家 生活 家居 装饰 舒适
      \* semantic: 温馨 舒适 私密 放松 归属 安全 个人空间 生活气息
      \* emotions: 温馨 舒适 安全 放松 归属
      [theme |-> <<108, 105, 102, 101, 95, 104, 111, 109, 101>>,
       keywords |-> << <<23478>>, <<23478, 24237>>, <<25151, 38388>>, <<23458, 21381>>,
          <<21351, 23460>>, <<28201, 39336>>, <<23621, 23478>>, <<29983, 27963>>,
          <<23478, 23621>>, <<35013, 39280>>, <<33298, 36866>> >>,
       semantic |-> << <<28201, 39336>>, <<33298, 36866>>, <<31169, 23494>>, <<25918, 26494>>,
          <<24402, 23646>>, <<23433, 20840>>, <<20010, 20154, 31354, 38388>>,
          <<29983, 27963, 27668, 24687>> >>,
       emotions |-> << <<28201, 39336>>, <<33298, 36866>>, <<23433, 20840>>, <<25918, 26494>>,
          <<24402, 23646>> >>],
      \* life_work
      \* keywords: 工作 办公 电脑 会议 商务 职场 学习 专注 办公室 效率 专业
      \* semantic: 专业 效率 专注 认真 责任 成就 挑战 团队
      \* emotions: 专注 认真 责任 成就 挑战
      [theme |-> <<108, 105, 102, 101, 95, 119, 111, 114, 107>>,
       keywords |-> << <<24037, 20316>>, <<21150, 20844>>, <<30005, 33041>>, <<20250, 35758>>,
          <<21830, 21153>>, <<32844, 22330>>, <<23398, 20064>>, <<19987, 27880>>,
          <<21150, 20844, 23460>>, <<25928, 29575>>, <<19987, 19994>> >>,
       semantic |-> << <<19987, 19994>>, <<25928, 29575>>, <<19987, 27880>>, <<35748, 30495>>,
          <<36131, 20219>>, <<25104, 23601>>, <<25361, 25112>>, <<22242, 38431>> >>,
       emotions |-> << <<19987, 27880>>, <<35748, 30495>>, <<36131, 20219>>, <<25104, 23601>>,
          <<25361, 25112>> >>],
      \* life_travel
      \* keywords: 旅行 旅游 度假 行李 机场 酒店 风景 探索 旅途 冒险 发现
      \* semantic: 自由 探索 发现 体验 冒险 放松 开阔 记忆
      \* emotions: 自由 兴奋 探索 放松 开阔
      [theme |-> <<108, 105, 102, 101, 95, 116, 114, 97, 118, 101, 108>>,
       keywords |-> << <<26053, 34892>>, <<26053, 28216>>, <<24230, 20551>>, <<34892, 26446>>,
          <<26426, 22330>>, <<37202, 24215>>, <<39118, 26223>>, <<25506, 32034>>,
          <<26053, 36884>>, <<20882, 38505>>, <<21457, 29616>> >>,
       semantic |-> << <<33258, 30001>>, <<25506, 32034>>, <<21457, 29616>>, <<20307, 39564>>,
          <<20882, 38505>>, <<25918, 26494>>, <<24320, 38420>>, <<35760, 24518>> >>,
       emotions |-> << <<33258, 30001>>, <<20852, 22859>>, <<25506, 32034>>, <<25918, 26494>>,
          <<24320, 38420>> >>],
      \* life_food
      \* keywords: 美食 食物 餐厅 烹饪 料理 美味 餐桌 品尝 菜肴 香味 色香味
      \* semantic: 美味 香气 色彩 精致 享受 满足 文化 分享
      \* emotions: 享受 满足 幸福 分享 文化
      [theme |-> <<108, 105, 102, 101, 95, 102, 111, 111, 100>>,
       keywords |-> << <<32654, 39135>>, <<39135, 29289>>, <<39184, 21381>>, <<28921, 39274>>,
          <<26009, 29702>>, <<32654, 21619>>, <<39184, 26700>>, <<21697, 23581>>,
          <<33756, 32948>>, <<39321, 21619>>, <<33394, 39321, 21619>> >>,
       semantic |-> << <<32654, 21619>>, <<39321, 27668>>, <<33394, 24425>>, <<31934, 33268>>,
          <<20139, 21463>>, <<28385, 36275>>, <<25991, 21270>>, <<20998, 20139>> >>,
       emotions |-> << <<20139, 21463>>, <<28385, 36275>>, <<24184, 31119>>, <<20998, 20139>>,
          <<25991, 21270>> >>],
      \* life_reading
      \* keywords: 读书 阅读 书本 学习 知识 图书 文字 思考 书籍 智慧 文学
      \* semantic: 安静 专注 思考 智慧 知识 成长 内涵 修养
      \* emotions: 宁静 专注 智慧 成长 充实
      [theme |-> <<108, 105, 102, 101, 95, 114, 101, 97, 100, 105, 110, 103>>,
       keywords |-> << <<35835, 20070>>, <<38405, 35835>>, <<20070, 26412>>, <<23398, 20064>>,
          <<30693, 35782>>, <<22270, 20070>>, <<25991, 23383>>, <<24605, 32771>>,
          <<20070, 31821>>, <<26234, 24935>>, <<25991, 23398>> >>,
       semantic |-> << <<23433, 38745>>, <<19987, 27880>>, <<24605, 32771>>, <<26234, 24935>>,
          <<30693, 35782>>, <<25104, 38271>>, <<20869, 28085>>, <<20462, 20859>> >>,
       emotions |-> << <<23425, 38745>>, <<19987, 27880>>, <<26234, 24935>>, <<25104, 38271>>,
          <<20805, 23454>> >>],
      \* abstract_dream
      \* keywords: 梦想 希望 未来 理想 憧憬 目标 追求 愿望 梦 志向 抱负
      \* semantic: 远大 美好 追求 奋斗 坚持 信念 光明 可能
      \* emotions: 希望 憧憬 激励 坚定 美好
      [theme |-> <<97, 98, 115, 116, 114, 97, 99, 116, 95, 100, 114, 101, 97, 109>>,
       keywords |-> << <<26790, 24819>>, <<24076, 26395>>, <<26410, 26469>>, <<29702, 24819>>,
          <<24999, 25004>>, <<30446, 26631>>, <<36861, 27714>>, <<24895, 26395>>,
          <<26790>>, <<24535, 21521>>, <<25265, 36127>> >>,
       semantic |-> << <<36828, 22823>>, <<32654, 22909>>, <<36861, 27714>>, <<22859, 26007>>,
          <<22362, 25345>>, <<20449, 24565>>, <<20809, 26126>>, <<21487, 33021>> >>,
       emotions |-> << <<24076, 26395>>, <<24999, 25004>>, <<28608, 21169>>, <<22362, 23450>>,
          <<32654, 22909>> >>],
      \* abstract_memory
      \* keywords: 回忆 记忆 过去 怀念 思念 往事 童年 青春 时光 岁月 怀旧
      \* semantic: 珍贵 美好 怀念 感慨 时光 青春 纯真 难忘
      \* emotions: 怀念 感慨 珍贵 温暖 感伤
      [theme |-> <<97, 98, 115, 116, 114, 97, 99, 116, 95, 109, 101, 109, 111, 114, 121>>,
       keywords |-> << <<22238, 24518>>, <<35760, 24518>>, <<36807, 21435>>, <<24576, 24565>>,
          <<24605, 24565>>, <<24448, 20107>>, <<31461, 24180>>, <<38738, 26149>>,
          <<26102, 20809>>, <<23681, 26376>>, <<24576, 26087>> >>,
       semantic |-> << <<29645, 36149>>, <<32654, 22909>>, <<24576, 24565>>, <<24863, 24936>>,
          <<26102, 20809>>, <<38738, 26149>>, <<32431, 30495>>, <<38590, 24536>> >>,
       emotions |-> << <<24576, 24565>>, <<24863, 24936>>, <<29645, 36149>>, <<28201, 26262>>,
          <<24863, 20260>> >>],
      \* abstract_growth
      \* keywords: 成长 进步 发展 提升 改变 蜕变 突破 进化 成熟 学习 进取
      \* semantic: 进步 提升 突破 坚持 努力 收获 成就 蜕变
      \* emotions: 成就 满足 自豪 坚定 积极
      [theme |-> <<97, 98, 115, 116, 114, 97, 99, 116, 95, 103, 114, 111, 119, 116, 104>>,
       keywords |-> << <<25104, 38271>>, <<36827, 27493>>, <<21457, 23637>>, <<25552, 21319>>,
          <<25913, 21464>>, <<34581, 21464>>, <<31361, 30772>>, <<36827, 21270>>,
          <<25104, 29087>>, <<23398, 20064>>, <<36827, 21462>> >>,
       semantic |-> << <<36827, 27493>>, <<25552, 21319>>, <<31361, 30772>>, <<22362, 25345>>,
          <<21162, 21147>>, <<25910, 33719>>, <<25104, 23601>>, <<34581, 21464>> >>,
       emotions |-> << <<25104, 23601>>, <<28385, 36275>>, <<33258, 35946>>, <<22362, 23450>>,
          <<31215, 26497>> >>],
      \* abstract_peace
      \* keywords: 平静 安静 宁静 祥和 放松 冥想 内心 禅意 宁静 静谧 安详
      \* semantic: 宁静 平和 安详 内心 冥想 禅意 超脱 纯净
      \* emotions: 平静 安详 放松 纯净 超脱
      [theme |-> <<97, 98, 115, 116, 114, 97, 99, 116, 95, 112, 101, 97, 99, 101>>,
       keywords |-> << <<24179, 38745>>, <<23433, 38745>>, <<23425, 38745>>, <<31077, 21644>>,
          <<25918, 26494>>, <<20901, 24819>>, <<20869, 24515>>, <<31109, 24847>>,
          <<23425, 38745>>, <<38745, 35879>>, <<23433, 35814>> >>,
       semantic |-> << <<23425, 38745>>, <<24179, 21644>>, <<23433, 35814>>, <<20869, 24515>>,
          <<20901, 24819>>, <<31109, 24847>>, <<36229, 33073>>, <<32431, 20928>> >>,
       emotions |-> << <<24179, 38745>>, <<23433, 35814>>, <<25918, 26494>>, <<32431, 20928>>,
          <<36229, 33073>> >>],
      \* abstract_emotion
      \* keywords: 情感 温暖 感动 关爱 温情 心情 感受 情绪 内心 心灵 感触
      \* semantic: 深刻 真挚 温暖 感人 触动 共鸣 理解 包容
      \* emotions: 感动 温暖 真挚 深刻 共鸣
      [theme |-> <<97, 98, 115, 116, 114, 97, 99, 116, 95, 101, 109, 111, 116, 105, 111, 110>>,
       keywords |-> << <<24773, 24863>>, <<28201, 26262>>, <<24863, 21160>>, <<20851, 29233>>,
          <<28201, 24773>>, <<24515, 24773>>, <<24863, 21463>>, <<24773, 32490>>,
          <<20869, 24515>>, <<24515, 28789>>, <<24863, 35302>> >>,
       semantic |-> << <<28145, 21051>>, <<30495, 25370>>, <<28201, 26262>>, <<24863, 20154>>,
          <<35302, 21160>>, <<20849, 40483>>, <<29702, 35299>>, <<21253, 23481>> >>,
       emotions |-> << <<24863, 21160>>, <<28201, 26262>>, <<30495, 25370>>, <<28145, 21051>>,
          <<20849, 40483>> >>],
      \* season_spring
      \* keywords: 春天 春季 新绿 生机 复苏 嫩芽 春意 温暖 春日 花开 万物复苏
      \* semantic: 生机 希望 新生 活力 温暖 绿意 花开 复苏
      \* emotions: 希望 活力 新生 温暖 美好
      [theme |-> <<115, 101, 97, 115, 111, 110, 95, 115, 112, 114, 105, 110, 103>>,
       keywords |-> << <<26149, 22825>>, <<26149, 23395>>, <<26032, 32511>>, <<29983, 26426>>,
          <<22797, 33487>>, <<23273, 33469>>, <<26149, 24847>>, <<28201, 26262>>,
          <<26149, 26085>>, <<33457, 24320>>, <<19975, 29289, 22797, 33487>> >>,
       semantic |-> << <<29983, 26426>>, <<24076, 26395>>, <<26032, 29983>>, <<27963, 21147>>,
          <<28201, 26262>>, <<32511, 24847>>, <<33457, 24320>>, <<22797, 33487>> >>,
       emotions |-> << <<24076, 26395>>, <<27963, 21147>>, <<26032, 29983>>, <<28201, 26262>>,
          <<32654, 22909>> >>],
      \* season_summer
      \* keywords: 夏天 夏季 炎热 阳光 海滩 游泳 清凉 活力 夏日 热情 火热
      \* semantic: 热情 活力 阳光 热烈 充满活力 青春 激情 奔放
      \* emotions: 热情 活力 激情 自由 青春
      [theme |-> <<115, 101, 97, 115, 111, 110, 95, 115, 117, 109, 109, 101, 114>>,
       keywords |-> << <<22799, 22825>>, <<22799, 23395>>, <<28814, 28909>>, <<38451, 20809>>,
          <<28023, 28393>>, <<28216, 27891>>, <<28165, 20937>>, <<27963, 21147>>,
          <<22799, 26085>>, <<28909, 24773>>, <<28779, 28909>> >>,
       semantic |-> << <<28909, 24773>>, <<27963, 21147>>, <<38451, 20809>>, <<28909, 28872>>,
          <<20805, 28385, 27963, 21147>>, <<38738, 26149>>, <<28608, 24773>>,
          <<22868, 25918>> >>,
       emotions |-> << <<28909, 24773>>, <<27963, 21147>>, <<28608, 24773>>, <<33258, 30001>>,
          <<38738, 26149>> >>],
      \* season_autumn
      \* keywords: 秋天 秋季 落叶 金黄 收获 枫叶 萧瑟 成熟 金秋 丰收 凉爽
      \* semantic: 成熟 收获 丰富 沉淀 金黄 美丽 诗意 感怀
      \* emotions: 成熟 收获 感怀 诗意 沉静
      [theme |-> <<115, 101, 97, 115, 111, 110, 95, 97, 117, 116, 117, 109, 110>>,
       keywords |-> << <<31179, 22825>>, <<31179, 23395>>, <<33853, 21494>>, <<37329, 40644>>,
          <<25910, 33719>>, <<26539, 21494>>, <<33831, 29791>>, <<25104, 29087>>,
          <<37329, 31179>>, <<20016, 25910>>, <<20937, 29245>> >>,
       semantic |-> << <<25104, 29087>>, <<25910, 33719>>, <<20016, 23500>>, <<27785, 28096>>,
          <<37329, 40644>>, <<32654, 20029>>, <<35799, 24847>>, <<24863, 24576>> >>,
       emotions |-> << <<25104, 29087>>, <<25910, 33719>>, <<24863, 24576>>, <<35799, 24847>>,
          <<27785, 38745>> >>],
      \* season_winter
      \* keywords: 冬天 冬季 雪 寒冷 雪花 冰 纯洁 静谧 雪景 银装素裹 洁白
      \* semantic: 纯洁 静谧 洁白 宁静 素雅 清冷 美丽 神圣
      \* emotions: 纯洁 宁静 清冷 神圣 美丽
      [theme |-> <<115, 101, 97, 115, 111, 110, 95, 119, 105, 110, 116, 101, 114>>,
       keywords |-> << <<20908, 22825>>, <<20908, 23395>>, <<38634>>, <<23506, 20919>>,
          <<38634, 33457>>, <<20912>>, <<32431, 27905>>, <<38745, 35879>>,
          <<38634, 26223>>, <<38134, 35013, 32032, 35065>>, <<27905, 30333>> >>,
       semantic |-> << <<32431, 27905>>, <<38745, 35879>>, <<27905, 30333>>, <<23425, 38745>>,
          <<32032, 38597>>, <<28165, 20919>>, <<32654, 20029>>, <<31070, 22307>> >>,
       emotions |-> << <<32431, 27905>>, <<23425, 38745>>, <<28165, 20919>>, <<31070, 22307>>,
          <<32654, 20029>> >>],
      \* activity_sport
      \* keywords: 运动 健身 跑步 瑜伽 游泳 锻炼 活力 健康 体育 汗水 坚持
      \* semantic: 活力 健康 坚持 挑战 突破 汗水 努力 强健
      \* emotions: 活力 健康 坚持 挑战 成就
      [theme |-> <<97, 99, 116, 105, 118, 105, 116, 121, 95, 115, 112, 111, 114, 116>>,
       keywords |-> << <<36816, 21160>>, <<20581, 36523>>, <<36305, 27493>>, <<29788, 20285>>,
          <<28216, 27891>>, <<38203, 28860>>, <<27963, 21147>>, <<20581, 24247>>,
          <<20307, 32946>>, <<27735, 27700>>, <<22362, 25345>> >>,
       semantic |-> << <<27963, 21147>>, <<20581, 24247>>, <<22362, 25345>>, <<25361, 25112>>,
          <<31361, 30772>>, <<27735, 27700>>, <<21162, 21147>>, <<24378, 20581>> >>,
       emotions |-> << <<27963, 21147>>, <<20581, 24247>>, <<22362, 25345>>, <<25361, 25112>>,
          <<25104, 23601>> >>],
      \* activity_art
      \* keywords: 艺术 绘画 音乐 创作 设计 美术 文艺 创意 艺术 灵感 美感
      \* semantic: 创意 美感 灵感 表达 创造 艺术 文化 审美
      \* emotions: 创意 美感 表达 文艺 灵感
      [theme |-> <<97, 99, 116, 105, 118, 105, 116, 121, 95, 97, 114, 116>>,
       keywords |-> << <<33402, 26415>>, <<32472, 30011>>, <<38899, 20048>>, <<21019, 20316>>,
          <<35774, 35745>>, <<32654, 26415>>, <<25991, 33402>>, <<21019, 24847>>,
          <<33402, 26415>>, <<28789, 24863>>, <<32654, 24863>> >>,
       semantic |-> << <<21019, 24847>>, <<32654, 24863>>, <<28789, 24863>>, <<34920, 36798>>,
          <<21019, 36896>>, <<33402, 26415>>, <<25991, 21270>>, <<23457, 32654>> >>,
       emotions |-> << <<21019, 24847>>, <<32654, 24863>>, <<34920, 36798>>, <<25991, 33402>>,
          <<28789, 24863>> >>],
      \* activity_relax
      \* keywords: 休息 放松 躺着 睡觉 安静 舒适 惬意 慵懒 休闲 悠闲 享受
      \* semantic: 舒适 惬意 悠闲 放松 享受 慵懒 安逸 自在
      \* emotions: 放松 舒适 惬意 悠闲 享受
      [theme |-> <<97, 99, 116, 105, 118, 105, 116, 121, 95, 114, 101, 108, 97, 120>>,
       keywords |-> << <<20241, 24687>>, <<25918, 26494>>, <<36538, 30528>>, <<30561, 35273>>,
          <<23433, 38745>>, <<33298, 36866>>, <<24812, 24847>>, <<24949, 25042>>,
          <<20241, 38386>>, <<24736, 38386>>, <<20139, 21463>> >>,
       semantic |-> << <<33298, 36866>>, <<24812, 24847>>, <<24736, 38386>>, <<25918, 26494>>,
          <<20139, 21463>>, <<24949, 25042>>, <<23433, 36920>>, <<33258, 22312>> >>,
       emotions |-> << <<25918, 26494>>, <<33298, 36866>>, <<24812, 24847>>, <<24736, 38386>>,
          <<20139, 21463>> >>],
      \* animal_cat
      \* keywords: 猫 小猫 猫咪 喵星人 可爱猫 宠物猫 猫咪 喵喵
      \* semantic: 可爱 温顺 优雅 独立 神秘 灵动 治愈 陪伴
      \* emotions: 可爱 治愈 温顺 陪伴 温暖
      [theme |-> <<97, 110, 105, 109, 97, 108, 95, 99, 97, 116>>,
       keywords |-> << <<29483>>, <<23567, 29483>>, <<29483, 21674>>, <<21941, 26143, 20154>>,
          <<21487, 29233, 29483>>, <<23456, 29289, 29483>>, <<29483, 21674>>,
          <<21941, 21941>> >>,
       semantic |-> << <<21487, 29233>>, <<28201, 39034>>, <<20248, 38597>>, <<29420, 31435>>,
          <<31070, 31192>>, <<28789, 21160>>, <<27835, 24840>>, <<38506, 20276>> >>,
       emotions |-> << <<21487, 29233>>, <<27835, 24840>>, <<28201, 39034>>, <<38506, 20276>>,
          <<28201, 26262>> >>],
      \* animal_dog
      \* keywords: 狗 小狗 狗狗 宠物狗 忠诚 汪星人 犬 小犬
      \* semantic: 忠诚 友好 活泼 陪伴 守护 可爱 温暖 信任
      \* emotions: 忠诚 友好 陪伴 温暖 信任
      [theme |-> <<97, 110, 105, 109, 97, 108, 95, 100, 111, 103>>,
       keywords |-> << <<29399>>, <<23567, 29399>>, <<29399, 29399>>, <<23456, 29289, 29399>>,
          <<24544, 35802>>, <<27754, 26143, 20154>>, <<29356>>, <<23567, 29356>> >>,
       semantic |-> << <<24544, 35802>>, <<21451, 22909>>, <<27963, 27900>>, <<38506, 20276>>,
          <<23432, 25252>>, <<21487, 29233>>, <<28201, 26262>>, <<20449, 20219>> >>,
       emotions |-> << <<24544, 35802>>, <<21451, 22909>>, <<38506, 20276>>, <<28201, 26262>>,
          <<20449, 20219>> >>],
      \* animal_bird
      \* keywords: 鸟 小鸟 飞鸟 鸟儿 翅膀 飞翔 鸟类 羽毛
      \* semantic: 自由 轻盈 优雅 飞翔 歌声 美丽 灵动 天空
      \* emotions: 自由 轻盈 优雅 美丽 灵动
      [theme |-> <<97, 110, 105, 109, 97, 108, 95, 98, 105, 114, 100>>,
       keywords |-> << <<40479>>, <<23567, 40479>>, <<39134, 40479>>, <<40479, 20799>>,
          <<32709, 33152>>, <<39134, 32724>>, <<40479, 31867>>, <<32701, 27611>> >>,
       semantic |-> << <<33258, 30001>>, <<36731, 30408>>, <<20248, 38597>>, <<39134, 32724>>,
          <<27468, 22768>>, <<32654, 20029>>, <<28789, 21160>>, <<22825, 31354>> >>,
       emotions |-> << <<33258, 30001>>, <<36731, 30408>>, <<20248, 38597>>, <<32654, 20029>>,
          <<28789, 21160>> >>],
      \* animal_wild
      \* keywords: 野生动物 兔子 松鼠 蝴蝶 昆虫 动物 野生 自然
      \* semantic: 自然 野性 生态 和谐 美丽 神奇 多样 生命
      \* emotions: 自然 和谐 美丽 神奇 生命
      [theme |-> <<97, 110, 105, 109, 97, 108, 95, 119, 105, 108, 100>>,
       keywords |-> << <<37326, 29983, 21160, 29289>>, <<20820, 23376>>, <<26494, 40736>>,
          <<34676, 34678>>, <<26118, 34411>>, <<21160, 29289>>, <<37326, 29983>>,
          <<33258, 28982>> >>,
       semantic |-> << <<33258, 28982>>, <<37326, 24615>>, <<29983, 24577>>, <<21644, 35856>>,
          <<32654, 20029>>, <<31070, 22855>>, <<22810, 26679>>, <<29983, 21629>> >>,
       emotions |-> << <<33258, 28982>>, <<21644, 35856>>, <<32654, 20029>>, <<31070, 22855>>,
          <<29983, 21629>> >>]
    >>

\* xiaohongshu_images, in the order the dict literal lists its pools
xiaohongshu_images ==
    <<
      \* nature_mountain
      [theme |-> <<110, 97, 116, 117, 114, 101, 95, 109, 111, 117, 110, 116, 97, 105, 110>>,
       images |-> <<"https://images.unsplash.com/photo-1506905925346-21bda4d32df4?w=400&h=600&fit=crop",
                    "https://images.unsplash.com/photo-1464822759844-d150baec0494?w=400&h=600&fit=crop",
                    "https://images.unsplash.com/photo-1519904981063-b0cf448d479e?w=400&h=600&fit=crop",
                    "https://images.unsplash.com/photo-1551632811-561732d1e306?w=400&h=600&fit=crop",
                    "https://images.unsplash.com/photo-1506197603052-3cc9c3a201bd?w=400&h=600&fit=crop">>],
      \* nature_ocean
      [theme |-> <<110, 97, 116, 117, 114, 101, 95, 111, 99, 101, 97, 110>>,
       images |-> <<"https://images.unsplash.com/photo-1505142468610-359e7d316be0?w=400&h=600&fit=crop",
                    "https://images.unsplash.com/photo-1544551763-46a013bb70d5?w=400&h=600&fit=crop",
                    "https://images.unsplash.com/photo-1507525428034-b723cf961d3e?w=400&h=600&fit=crop",
                    "https://images.unsplash.com/photo-1518837695005-2083093ee35b?w=400&h=600&fit=crop",
                    "https://images.unsplash.com/photo-1439066615861-d1af74d74000?w=400&h=600&fit=crop">>],
      \* nature_forest
      [theme |-> <<110, 97, 116, 117, 114, 101, 95, 102, 111, 114, 101, 115, 116>>,
       images |-> <<"https://images.unsplash.com/photo-1441974231531-c6227db76b6e?w=400&h=600&fit=crop",
                    "https://images.unsplash.com/photo-1448375240586-882707db888b?w=400&h=600&fit=crop",
                    "https://images.unsplash.com/photo-1518837695005-2083093ee35b?w=400&h=600&fit=crop",
                    "https://images.unsplash.com/photo-1506905925346-21bda4d32df4?w=400&h=600&fit=crop",
                    "https://images.unsplash.com/photo-1511593358241-7eea1f3c84e5?w=400&h=600&fit=crop">>],
      \* nature_flower
      [theme |-> <<110, 97, 116, 117, 114, 101, 95, 102, 108, 111, 119, 101, 114>>,
       images |-> <<"https://images.unsplash.com/photo-1490750967868-88aa4486c946?w=400&h=600&fit=crop",
                    "https://images.unsplash.com/photo-1518895949257-7621c3c786d7?w=400&h=600&fit=crop",
                    "https://images.unsplash.com/photo-1463320726281-696a485928c7?w=400&h=600&fit=crop",
                    "https://images.unsplash.com/photo-1502082553048-f009c37129b9?w=400&h=600&fit=crop",
                    "https://images.unsplash.com/photo-1507003211169-0a1dd7228f2d?w=400&h=600&fit=crop">>],
      \* nature_sky
      [theme |-> <<110, 97, 116, 117, 114, 101, 95, 115, 107, 121>>,
       images |-> <<"https://images.unsplash.com/photo-1506905925346-21bda4d32df4?w=400&h=600&fit=crop",
                    "https://images.unsplash.com/photo-1500382017468-9049fed747ef?w=400&h=600&fit=crop",
                    "https://images.unsplash.com/photo-1519904981063-b0cf448d479e?w=400&h=600&fit=crop",
                    "https://images.unsplash.com/photo-1506197603052-3cc9c3a201bd?w=400&h=600&fit=crop",
                    "https://images.unsplash.com/photo-1464822759844-d150baec0494?w=400&h=600&fit=crop">>],
      \* city_modern
      [theme |-> <<99, 105, 116, 121, 95, 109, 111, 100, 101, 114, 110>>,
       images |-> <<"https://images.unsplash.com/photo-1449824913935-59a10b8d2000?w=400&h=600&fit=crop",
                    "https://images.unsplash.com/photo-1486406146926-c627a92ad1ab?w=400&h=600&fit=crop",
                    "https://images.unsplash.com/photo-1477959858617-67f85cf4f1df?w=400&h=600&fit=crop",
                    "https://images.unsplash.com/photo-1514565131-fce0801e5785?w=400&h=600&fit=crop",
                    "https://images.unsplash.com/photo-1480714378408-67cf0d13bc1f?w=400&h=600&fit=crop">>],
      \* city_street
      [theme |-> <<99, 105, 116, 121, 95, 115, 116, 114, 101, 101, 116>>,
       images |-> <<"https://images.unsplash.com/photo-1477959858617-67f85cf4f1df?w=400&h=600&fit=crop",
                    "https://images.unsplash.com/photo-1514565131-fce0801e5785?w=400&h=600&fit=crop",
                    "https://images.unsplash.com/photo-1449824913935-59a10b8d2000?w=400&h=600&fit=crop",
                    "https://images.unsplash.com/photo-1486406146926-c627a92ad1ab?w=400&h=600&fit=crop",
                    "https://images.unsplash.com/photo-1480714378408-67cf0d13bc1f?w=400&h=600&fit=crop">>],
      \* city_cafe
      [theme |-> <<99, 105, 116, 121, 95, 99, 97, 102, 101>>,
       images |-> <<"https://images.unsplash.com/photo-1501339847302-ac426a4a7cbb?w=400&h=600&fit=crop",
                    "https://images.unsplash.com/photo-1554118811-1e0d58224f24?w=400&h=600&fit=crop",
                    "https://images.unsplash.com/photo-1495474472287-4d71bcdd2085?w=400&h=600&fit=crop",
                    "https://images.unsplash.com/photo-1559056199-641a0ac8b55e?w=400&h=600&fit=crop",
                    "https://images.unsplash.com/photo-1521017432531-fbd92d768814?w=400&h=600&fit=crop">>],
      \* city_night
      [theme |-> <<99, 105, 116, 121, 95, 110, 105, 103, 104, 116>>,
       images |-> <<"https://images.unsplash.com/photo-1514565131-fce0801e5785?w=400&h=600&fit=crop",
                    "https://images.unsplash.com/photo-1477959858617-67f85cf4f1df?w=400&h=600&fit=crop",
                    "https://images.unsplash.com/photo-1449824913935-59a10b8d2000?w=400&h=600&fit=crop",
                    "https://images.unsplash.com/photo-1486406146926-c627a92ad1ab?w=400&h=600&fit=crop",
                    "https://images.unsplash.com/photo-1480714378408-67cf0d13bc1f?w=400&h=600&fit=crop">>],
      \* people_portrait
      [theme |-> <<112, 101, 111, 112, 108, 101, 95, 112, 111, 114, 116, 114, 97, 105, 116>>,
       images |-> <<"https://images.unsplash.com/photo-1494790108755-2616c6106db4?w=400&h=600&fit=crop",
                    "https://images.unsplash.com/photo-1507003211169-0a1dd7228f2d?w=400&h=600&fit=crop",
                    "https://images.unsplash.com/photo-1517841905240-472988babdf9?w=400&h=600&fit=crop",
                    "https://images.unsplash.com/photo-1500648767791-00dcc994a43e?w=400&h=600&fit=crop",
                    "https://images.unsplash.com/photo-1438761681033-6461ffad8d80?w=400&h=600&fit=crop">>],
      \* people_happy
      [theme |-> <<112, 101, 111, 112, 108, 101, 95, 104, 97, 112, 112, 121>>,
       images |-> <<"https://images.unsplash.com/photo-1507003211169-0a1dd7228f2d?w=400&h=600&fit=crop",
                    "https://images.unsplash.com/photo-1517841905240-472988babdf9?w=400&h=600&fit=crop",
                    "https://images.unsplash.com/photo-1500648767791-00dcc994a43e?w=400&h=600&fit=crop",
                    "https://images.unsplash.com/photo-1494790108755-2616c6106db4?w=400&h=600&fit=crop",
                    "https://images.unsplash.com/photo-1438761681033-6461ffad8d80?w=400&h=600&fit=crop">>],
      \* people_sad
      [theme |-> <<112, 101, 111, 112, 108, 101, 95, 115, 97, 100>>,
       images |-> <<"https://images.unsplash.com/photo-1494790108755-2616c6106db4?w=400&h=600&fit=crop",
                    "https://images.unsplash.com/photo-1507003211169-0a1dd7228f2d?w=400&h=600&fit=crop",
                    "https://images.unsplash.com/photo-1517841905240-472988babdf9?w=400&h=600&fit=crop",
                    "https://images.unsplash.com/photo-1500648767791-00dcc994a43e?w=400&h=600&fit=crop",
                    "https://images.unsplash.com/photo-1438761681033-6461ffad8d80?w=400&h=600&fit=crop">>],
      \* people_love
      [theme |-> <<112, 101, 111, 112, 108, 101, 95, 108, 111, 118, 101>>,
       images |-> <<"https://images.unsplash.com/photo-1516589178581-6cd7833ae3b2?w=400&h=600&fit=crop",
                    "https://images.unsplash.com/photo-1518568814500-bf0f8d125f46?w=400&h=600&fit=crop",
                    "https://images.unsplash.com/photo-1507003211169-0a1dd7228f2d?w=400&h=600&fit=crop",
                    "https://images.unsplash.com/photo-1517841905240-472988babdf9?w=400&h=600&fit=crop",
                    "https://images.unsplash.com/photo-1500648767791-00dcc994a43e?w=400&h=600&fit=crop">>],
      \* people_friendship
      [theme |-> <<112, 101, 111, 112, 108, 101, 95, 102, 114, 105, 101, 110, 100, 115, 104, 105, 112>>,
       images |-> <<"https://images.unsplash.com/photo-1529156069898-49953e39b3ac?w=400&h=600&fit=crop",
                    "https://images.unsplash.com/photo-1507003211169-0a1dd7228f2d?w=400&h=600&fit=crop",
                    "https://images.unsplash.com/photo-1517841905240-472988babdf9?w=400&h=600&fit=crop",
                    "https://images.unsplash.com/photo-1500648767791-00dcc994a43e?w=400&h=600&fit=crop",
                    "https://images.unsplash.com/photo-1494790108755-2616c6106db4?w=400&h=600&fit=crop">>],
      \* people_family
      [theme |-> <<112, 101, 111, 112, 108, 101, 95, 102, 97, 109, 105, 108, 121>>,
       images |-> <<"https://images.unsplash.com/photo-1511895426328-dc8714191300?w=400&h=600&fit=crop",
                    "https://images.unsplash.com/photo-1507003211169-0a1dd7228f2d?w=400&h=600&fit=crop",
                    "https://images.unsplash.com/photo-1517841905240-472988babdf9?w=400&h=600&fit=crop",
                    "https://images.unsplash.com/photo-1500648767791-00dcc994a43e?w=400&h=600&fit=crop",
                    "https://images.unsplash.com/photo-1494790108755-2616c6106db4?w=400&h=600&fit=crop">>],
      \* life_home
      [theme |-> <<108, 105, 102, 101, 95, 104, 111, 109, 101>>,
       images |-> <<"https://images.unsplash.com/photo-1586023492125-27b2c045efd7?w=400&h=600&fit=crop",
                    "https://images.unsplash.com/photo-1560448204-e02f11c3d0e2?w=400&h=600&fit=crop",
                    "https://images.unsplash.com/photo-1556909114-f6e7ad7d3136?w=400&h=600&fit=crop",
                    "https://images.unsplash.com/photo-1484154218962-a197022b5858?w=400&h=600&fit=crop",
                    "https://images.unsplash.com/photo-1493809842364-78817add7ffb?w=400&h=600&fit=crop">>],
      \* life_work
      [theme |-> <<108, 105, 102, 101, 95, 119, 111, 114, 107>>,
       images |-> <<"https://images.unsplash.com/photo-1497032628192-86f99bcd76bc?w=400&h=600&fit=crop",
                    "https://images.unsplash.com/photo-1486312338219-ce68d2c6f44d?w=400&h=600&fit=crop",
                    "https://images.unsplash.com/photo-1507003211169-0a1dd7228f2d?w=400&h=600&fit=crop",
                    "https://images.unsplash.com/photo-1517841905240-472988babdf9?w=400&h=600&fit=crop",
                    "https://images.unsplash.com/photo-1500648767791-00dcc994a43e?w=400&h=600&fit=crop">>],
      \* life_travel
      [theme |-> <<108, 105, 102, 101, 95, 116, 114, 97, 118, 101, 108>>,
       images |-> <<"https://images.unsplash.com/photo-1488646953014-85cb44e25828?w=400&h=600&fit=crop",
                    "https://images.unsplash.com/photo-1506905925346-21bda4d32df4?w=400&h=600&fit=crop",
                    "https://images.unsplash.com/photo-1464822759844-d150baec0494?w=400&h=600&fit=crop",
                    "https://images.unsplash.com/photo-1519904981063-b0cf448d479e?w=400&h=600&fit=crop",
                    "https://images.unsplash.com/photo-1551632811-561732d1e306?w=400&h=600&fit=crop">>],
      \* life_food
      [theme |-> <<108, 105, 102, 101, 95, 102, 111, 111, 100>>,
       images |-> <<"https://images.unsplash.com/photo-1504674900247-0877df9cc836?w=400&h=600&fit=crop",
                    "https://images.unsplash.com/photo-1565299624946-b28f40a0ca4b?w=400&h=600&fit=crop",
                    "https://images.unsplash.com/photo-1567620905732-2d1ec7ab7445?w=400&h=600&fit=crop",
                    "https://images.unsplash.com/photo-1540189549336-e6e99c3679fe?w=400&h=600&fit=crop",
                    "https://images.unsplash.com/photo-1551782450-a2132b4ba21d?w=400&h=600&fit=crop">>],
      \* life_reading
      [theme |-> <<108, 105, 102, 101, 95, 114, 101, 97, 100, 105, 110, 103>>,
       images |-> <<"https://images.unsplash.com/photo-1481627834876-b7833e8f5570?w=400&h=600&fit=crop",
                    "https://images.unsplash.com/photo-1507003211169-0a1dd7228f2d?w=400&h=600&fit=crop",
                    "https://images.unsplash.com/photo-1517841905240-472988babdf9?w=400&h=600&fit=crop",
                    "https://images.unsplash.com/photo-1500648767791-00dcc994a43e?w=400&h=600&fit=crop",
                    "https://images.unsplash.com/photo-1494790108755-2616c6106db4?w=400&h=600&fit=crop">>],
      \* abstract_dream
      [theme |-> <<97, 98, 115, 116, 114, 97, 99, 116, 95, 100, 114, 101, 97, 109>>,
       images |-> <<"https://images.unsplash.com/photo-1506905925346-21bda4d32df4?w=400&h=600&fit=crop",
                    "https://images.unsplash.com/photo-1500382017468-9049fed747ef?w=400&h=600&fit=crop",
                    "https://images.unsplash.com/photo-1519904981063-b0cf448d479e?w=400&h=600&fit=crop",
                    "https://images.unsplash.com/photo-1506197603052-3cc9c3a201bd?w=400&h=600&fit=crop",
                    "https://images.unsplash.com/photo-1464822759844-d150baec0494?w=400&h=600&fit=crop">>],
      \* abstract_memory
      [theme |-> <<97, 98, 115, 116, 114, 97, 99, 116, 95, 109, 101, 109, 111, 114, 121>>,
       images |-> <<"https://images.unsplash.com/photo-1507003211169-0a1dd7228f2d?w=400&h=600&fit=crop",
                    "https://images.unsplash.com/photo-1517841905240-472988babdf9?w=400&h=600&fit=crop",
                    "https://images.unsplash.com/photo-1500648767791-00dcc994a43e?w=400&h=600&fit=crop",
                    "https://images.unsplash.com/photo-1494790108755-2616c6106db4?w=400&h=600&fit=crop",
                    "https://images.unsplash.com/photo-1438761681033-6461ffad8d80?w=400&h=600&fit=crop">>],
      \* abstract_growth
      [theme |-> <<97, 98, 115, 116, 114, 97, 99, 116, 95, 103, 114, 111, 119, 116, 104>>,
       images |-> <<"https://images.unsplash.com/photo-1490750967868-88aa4486c946?w=400&h=600&fit=crop",
                    "https://images.unsplash.com/photo-1518895949257-7621c3c786d7?w=400&h=600&fit=crop",
                    "https://images.unsplash.com/photo-1463320726281-696a485928c7?w=400&h=600&fit=crop",
                    "https://images.unsplash.com/photo-1502082553048-f009c37129b9?w=400&h=600&fit=crop",
                    "https://images.unsplash.com/photo-1507003211169-0a1dd7228f2d?w=400&h=600&fit=crop">>],
      \* abstract_peace
      [theme |-> <<97, 98, 115, 116, 114, 97, 99, 116, 95, 112, 101, 97, 99, 101>>,
       images |-> <<"https://images.unsplash.com/photo-1506905925346-21bda4d32df4?w=400&h=600&fit=crop",
                    "https://images.unsplash.com/photo-1500382017468-9049fed747ef?w=400&h=600&fit=crop",
                    "https://images.unsplash.com/photo-1519904981063-b0cf448d479e?w=400&h=600&fit=crop",
                    "https://images.unsplash.com/photo-1506197603052-3cc9c3a201bd?w=400&h=600&fit=crop",
                    "https://images.unsplash.com/photo-1464822759844-d150baec0494?w=400&h=600&fit=crop">>],
      \* abstract_emotion
      [theme |-> <<97, 98, 115, 116, 114, 97, 99, 116, 95, 101, 109, 111, 116, 105, 111, 110>>,
       images |-> <<"https://images.unsplash.com/photo-1507003211169-0a1dd7228f2d?w=400&h=600&fit=crop",
                    "https://images.unsplash.com/photo-1517841905240-472988babdf9?w=400&h=600&fit=crop",
                    "https://images.unsplash.com/photo-1500648767791-00dcc994a43e?w=400&h=600&fit=crop",
                    "https://images.unsplash.com/photo-1494790108755-2616c6106db4?w=400&h=600&fit=crop",
                    "https://images.unsplash.com/photo-1438761681033-6461ffad8d80?w=400&h=600&fit=crop">>],
      \* season_spring
      [theme |-> <<115, 101, 97, 115, 111, 110, 95, 115, 112, 114, 105, 110, 103>>,
       images |-> <<"https://images.unsplash.com/photo-1490750967868-88aa4486c946?w=400&h=600&fit=crop",
                    "https://images.unsplash.com/photo-1518895949257-7621c3c786d7?w=400&h=600&fit=crop",
                    "https://images.unsplash.com/photo-1463320726281-696a485928c7?w=400&h=600&fit=crop",
                    "https://images.unsplash.com/photo-1502082553048-f009c37129b9?w=400&h=600&fit=crop",
                    "https://images.unsplash.com/photo-1507003211169-0a1dd7228f2d?w=400&h=600&fit=crop">>],
      \* season_summer
      [theme |-> <<115, 101, 97, 115, 111, 110, 95, 115, 117, 109, 109, 101, 114>>,
       images |-> <<"https://images.unsplash.com/photo-1505142468610-359e7d316be0?w=400&h=600&fit=crop",
                    "https://images.unsplash.com/photo-1544551763-46a013bb70d5?w=400&h=600&fit=crop",
                    "https://images.unsplash.com/photo-1507525428034-b723cf961d3e?w=400&h=600&fit=crop",
                    "https://images.unsplash.com/photo-1518837695005-2083093ee35b?w=400&h=600&fit=crop",
                    "https://images.unsplash.com/photo-1439066615861-d1af74d74000?w=400&h=600&fit=crop">>],
      \* season_autumn
      [theme |-> <<115, 101, 97, 115, 111, 110, 95, 97, 117, 116, 117, 109, 110>>,
       images |-> <<"https://images.unsplash.com/photo-1441974231531-c6227db76b6e?w=400&h=600&fit=crop",
                    "https://images.unsplash.com/photo-1448375240586-882707db888b?w=400&h=600&fit=crop",
                    "https://images.unsplash.com/photo-1518837695005-2083093ee35b?w=400&h=600&fit=crop",
                    "https://images.unsplash.com/photo-1506905925346-21bda4d32df4?w=400&h=600&fit=crop",
                    "https://images.unsplash.com/photo-1511593358241-7eea1f3c84e5?w=400&h=600&fit=crop">>],
      \* season_winter
      [theme |-> <<115, 101, 97, 115, 111, 110, 95, 119, 105, 110, 116, 101, 114>>,
       images |-> <<"https://images.unsplash.com/photo-1578662996442-48f60103fc96?w=400&h=600&fit=crop",
                    "https://images.unsplash.com/photo-1547036967-23d11aacaee0?w=400&h=600&fit=crop",
                    "https://images.unsplash.com/photo-1483664852095-d6cc6870702d?w=400&h=600&fit=crop",
                    "https://images.unsplash.com/photo-1506905925346-21bda4d32df4?w=400&h=600&fit=crop",
                    "https://images.unsplash.com/photo-1464822759844-d150baec0494?w=400&h=600&fit=crop">>],
      \* activity_sport
      [theme |-> <<97, 99, 116, 105, 118, 105, 116, 121, 95, 115, 112, 111, 114, 116>>,
       images |-> <<"https://images.unsplash.com/photo-1571019613454-1cb2f99b2d8b?w=400&h=600&fit=crop",
                    "https://images.unsplash.com/photo-1544367567-0f2fcb009e0b?w=400&h=600&fit=crop",
                    "https://images.unsplash.com/photo-1507003211169-0a1dd7228f2d?w=400&h=600&fit=crop",
                    "https://images.unsplash.com/photo-1517841905240-472988babdf9?w=400&h=600&fit=crop",
                    "https://images.unsplash.com/photo-1500648767791-00dcc994a43e?w=400&h=600&fit=crop">>],
      \* activity_art
      [theme |-> <<97, 99, 116, 105, 118, 105, 116, 121, 95, 97, 114, 116>>,
       images |-> <<"https://images.unsplash.com/photo-1513475382585-d06e58bcb0e0?w=400&h=600&fit=crop",
                    "https://images.unsplash.com/photo-1507003211169-0a1dd7228f2d?w=400&h=600&fit=crop",
                    "https://images.unsplash.com/photo-1517841905240-472988babdf9?w=400&h=600&fit=crop",
                    "https://images.unsplash.com/photo-1500648767791-00dcc994a43e?w=400&h=600&fit=crop",
                    "https://images.unsplash.com/photo-1494790108755-2616c6106db4?w=400&h=600&fit=crop">>],
      \* activity_relax
      [theme |-> <<97, 99, 116, 105, 118, 105, 116, 121, 95, 114, 101, 108, 97, 120>>,
       images |-> <<"https://images.unsplash.com/photo-1586023492125-27b2c045efd7?w=400&h=600&fit=crop",
                    "https://images.unsplash.com/photo-1560448204-e02f11c3d0e2?w=400&h=600&fit=crop",
                    "https://images.unsplash.com/photo-1556909114-f6e7ad7d3136?w=400&h=600&fit=crop",
                    "https://images.unsplash.com/photo-1484154218962-a197022b5858?w=400&h=600&fit=crop",
                    "https://images.unsplash.com/photo-1493809842364-78817add7ffb?w=400&h=600&fit=crop">>],
      \* animal_cat
      [theme |-> <<97, 110, 105, 109, 97, 108, 95, 99, 97, 116>>,
       images |-> <<"https://images.unsplash.com/photo-1514888286974-6c03e2ca1dba?w=400&h=600&fit=crop",
                    "https://images.unsplash.com/photo-1533738363-b7f9aef128ce?w=400&h=600&fit=crop",
                    "https://images.unsplash.com/photo-1574158622682-e40e69881006?w=400&h=600&fit=crop",
                    "https://images.unsplash.com/photo-1592194996308-7b43878e84a6?w=400&h=600&fit=crop",
                    "https://images.unsplash.com/photo-1518791841217-8f162f1e1131?w=400&h=600&fit=crop">>],
      \* animal_dog
      [theme |-> <<97, 110, 105, 109, 97, 108, 95, 100, 111, 103>>,
       images |-> <<"https://images.unsplash.com/photo-1552053831-71594a27632d?w=400&h=600&fit=crop",
                    "https://images.unsplash.com/photo-1587300003388-59208cc962cb?w=400&h=600&fit=crop",
                    "https://images.unsplash.com/photo-1518717758536-85ae29035b6d?w=400&h=600&fit=crop",
                    "https://images.unsplash.com/photo-1583337130417-3346a1be7dee?w=400&h=600&fit=crop",
                    "https://images.unsplash.com/photo-1561037404-61cd46aa615b?w=400&h=600&fit=crop">>],
      \* animal_bird
      [theme |-> <<97, 110, 105, 109, 97, 108, 95, 98, 105, 114, 100>>,
       images |-> <<"https://images.unsplash.com/photo-1444464666168-49d633b86797?w=400&h=600&fit=crop",
                    "https://images.unsplash.com/photo-1520637836862-4d197d17c55a?w=400&h=600&fit=crop",
                    "https://images.unsplash.com/photo-1506905925346-21bda4d32df4?w=400&h=600&fit=crop",
                    "https://images.unsplash.com/photo-1464822759844-d150baec0494?w=400&h=600&fit=crop",
                    "https://images.unsplash.com/photo-1519904981063-b0cf448d479e?w=400&h=600&fit=crop">>],
      \* animal_wild
      [theme |-> <<97, 110, 105, 109, 97, 108, 95, 119, 105, 108, 100>>,
       images |-> <<"https://images.unsplash.com/photo-1474511320723-9a56873867b5?w=400&h=600&fit=crop",
                    "https://images.unsplash.com/photo-1558618666-fcd25c85cd64?w=400&h=600&fit=crop",
                    "https://images.unsplash.com/photo-1506905925346-21bda4d32df4?w=400&h=600&fit=crop",
                    "https://images.unsplash.com/photo-1464822759844-d150baec0494?w=400&h=600&fit=crop",
                    "https://images.unsplash.com/photo-1519904981063-b0cf448d479e?w=400&h=600&fit=crop">>]
    >>


\* str.lower() on the letters with a one-to-one lower-case form that the prompts use:
\* A-Z, the Latin-1 capitals and the full-width capitals; CJK, digits, punctuation
\* and lower-case letters have no lower-case mapping and are left as they are
Lower(s) ==
    [i \in 1..Len(s) |->
        IF s[i] \in 65..90 \/ s[i] \in (192..222) \ {215} \/ s[i] \in 65313..65338
        THEN s[i] + 32 ELSE s[i]]

\* s.split(): the maximal runs of non-whitespace characters
RECURSIVE SplitWhitespace(_)
SplitWhitespace(s) ==
    IF s = <<>> THEN <<>>
    ELSE IF IsSpace(Head(s)) THEN SplitWhitespace(Tail(s))
    ELSE LET n == CHOOSE k \in 1..Len(s) :
                      /\ \A j \in 1..k : ~IsSpace(s[j])
                      /\ (k = Len(s) \/ IsSpace(s[k + 1]))
         IN  << SubSeq(s, 1, n) >> \o SplitWhitespace(SubSeq(s, n + 1, Len(s)))

\* s.count(sub) from position from on: the non-overlapping occurrences, left to right
RECURSIVE Count(_, _, _)
Count(s, sub, from) ==
    LET p == IndexOf(s, sub, from)
    IN  IF p = 0 THEN 0 ELSE 1 + Count(s, sub, p + Len(sub))

RECURSIVE SumOf(_)
SumOf(ns) == IF ns = <<>> THEN 0 ELSE Head(ns) + SumOf(Tail(ns))

\* _analyze_ai_description(prompt_text): the first scene type and the first emotion,
\* in table order, one of whose keywords occurs in the text, and the element words
\* that occur in it
AnalyzeAiDescription(prompt_text) ==
    LET
        scene_keywords ==
          <<
           \* nature_mountain: 山 山峰 山脉 高山 雪山 峰峦 登山 徒步
           [scene_type |-> <<110, 97, 116, 117, 114, 101, 95, 109, 111, 117, 110, 116, 97, 105, 110>>,
            keywords |-> << <<23665>>, <<23665, 23792>>, <<23665, 33033>>, <<39640, 23665>>,
               <<38634, 23665>>, <<23792, 23782>>, <<30331, 23665>>, <<24466, 27493>> >>],
           \* nature_ocean: 海 海洋 海滩 海岸 波浪 海水 沙滩 海边
           [scene_type |-> <<110, 97, 116, 117, 114, 101, 95, 111, 99, 101, 97, 110>>,
            keywords |-> << <<28023>>, <<28023, 27915>>, <<28023, 28393>>, <<28023, 23736>>,
               <<27874, 28010>>, <<28023, 27700>>, <<27801, 28393>>, <<28023, 36793>> >>],
           \* nature_forest: 森林 树林 树木 绿色 叶子 植物 自然
           [scene_type |-> <<110, 97, 116, 117, 114, 101, 95, 102, 111, 114, 101, 115, 116>>,
            keywords |-> << <<26862, 26519>>, <<26641, 26519>>, <<26641, 26408>>, <<32511, 33394>>,
               <<21494, 23376>>, <<26893, 29289>>, <<33258, 28982>> >>],
           \* nature_flower: 花 花朵 花园 鲜花 花瓣 盛开 绽放
           [scene_type |-> <<110, 97, 116, 117, 114, 101, 95, 102, 108, 111, 119, 101, 114>>,
            keywords |-> << <<33457>>, <<33457, 26421>>, <<33457, 22253>>, <<40092, 33457>>,
               <<33457, 29923>>, <<30427, 24320>>, <<32509, 25918>> >>],
           \* nature_sky: 天空 云 云朵 蓝天 白云 晴空 天际
           [scene_type |-> <<110, 97, 116, 117, 114, 101, 95, 115, 107, 121>>,
            keywords |-> << <<22825, 31354>>, <<20113>>, <<20113, 26421>>, <<34013, 22825>>,
               <<30333, 20113>>, <<26228, 31354>>, <<22825, 38469>> >>],
           \* city_modern: 城市 建筑 高楼 现代 都市 摩天大楼
           [scene_type |-> <<99, 105, 116, 121, 95, 109, 111, 100, 101, 114, 110>>,
            keywords |-> << <<22478, 24066>>, <<24314, 31569>>, <<39640, 27004>>, <<29616, 20195>>,
               <<37117, 24066>>, <<25705, 22825, 22823, 27004>> >>],
           \* city_street: 街道 马路 街景 商店 行人 车辆
           [scene_type |-> <<99, 105, 116, 121, 95, 115, 116, 114, 101, 101, 116>>,
            keywords |-> << <<34903, 36947>>, <<39532, 36335>>, <<34903, 26223>>, <<21830, 24215>>,
               <<34892, 20154>>, <<36710, 36742>> >>],
           \* lifestyle_food: 食物 美食 餐厅 菜品 料理 烹饪
           [scene_type |-> <<108, 105, 102, 101, 115, 116, 121, 108, 101, 95, 102, 111, 111, 100>>,
            keywords |-> << <<39135, 29289>>, <<32654, 39135>>, <<39184, 21381>>, <<33756, 21697>>,
               <<26009, 29702>>, <<28921, 39274>> >>],
           \* lifestyle_travel: 旅行 旅游 景点 度假 探索 冒险
           [scene_type |-> <<108, 105, 102, 101, 115, 116, 121, 108, 101, 95, 116, 114, 97, 118, 101, 108>>,
            keywords |-> << <<26053, 34892>>, <<26053, 28216>>, <<26223, 28857>>, <<24230, 20551>>,
               <<25506, 32034>>, <<20882, 38505>> >>],
           \* lifestyle_fashion: 时尚 服装 穿搭 风格 潮流 搭配
           [scene_type |-> <<108, 105, 102, 101, 115, 116, 121, 108, 101, 95, 102, 97, 115, 104, 105, 111, 110>>,
            keywords |-> << <<26102, 23578>>, <<26381, 35013>>, <<31359, 25645>>, <<39118, 26684>>,
               <<28526, 27969>>, <<25645, 37197>> >>],
           \* animal_pet: 宠物 猫 狗 动物 可爱 毛茸茸
           [scene_type |-> <<97, 110, 105, 109, 97, 108, 95, 112, 101, 116>>,
            keywords |-> << <<23456, 29289>>, <<29483>>, <<29399>>, <<21160, 29289>>,
               <<21487, 29233>>, <<27611, 33592, 33592>> >>],
           \* animal_bird: 鸟 小鸟 飞鸟 翅膀 飞翔 羽毛
           [scene_type |-> <<97, 110, 105, 109, 97, 108, 95, 98, 105, 114, 100>>,
            keywords |-> << <<40479>>, <<23567, 40479>>, <<39134, 40479>>, <<32709, 33152>>,
               <<39134, 32724>>, <<32701, 27611>> >>],
           \* animal_wild: 野生动物 兔子 松鼠 蝴蝶 昆虫 野生
           [scene_type |-> <<97, 110, 105, 109, 97, 108, 95, 119, 105, 108, 100>>,
            keywords |-> << <<37326, 29983, 21160, 29289>>, <<20820, 23376>>, <<26494, 40736>>,
               <<34676, 34678>>, <<26118, 34411>>, <<37326, 29983>> >>]
          >>
        emotion_keywords ==
          <<
           \* 温暖: 温暖 温馨 舒适 柔和 亲切
           [emotion |-> <<28201, 26262>>,
            keywords |-> << <<28201, 26262>>, <<28201, 39336>>, <<33298, 36866>>, <<26580, 21644>>,
               <<20146, 20999>> >>],
           \* 宁静: 宁静 安静 平静 祥和 静谧
           [emotion |-> <<23425, 38745>>,
            keywords |-> << <<23425, 38745>>, <<23433, 38745>>, <<24179, 38745>>, <<31077, 21644>>,
               <<38745, 35879>> >>],
           \* 活力: 活力 生机 充满 活跃 动感
           [emotion |-> <<27963, 21147>>,
            keywords |-> << <<27963, 21147>>, <<29983, 26426>>, <<20805, 28385>>, <<27963, 36291>>,
               <<21160, 24863>> >>],
           \* 浪漫: 浪漫 唯美 梦幻 美丽 优雅
           [emotion |-> <<28010, 28459>>,
            keywords |-> << <<28010, 28459>>, <<21807, 32654>>, <<26790, 24187>>, <<32654, 20029>>,
               <<20248, 38597>> >>],
           \* 神秘: 神秘 深邃 朦胧 幽深 隐秘
           [emotion |-> <<31070, 31192>>,
            keywords |-> << <<31070, 31192>>, <<28145, 36995>>, <<26406, 32999>>, <<24189, 28145>>,
               <<38544, 31192>> >>],
           \* 壮观: 壮观 雄伟 壮丽 震撼 宏伟
           [emotion |-> <<22766, 35266>>,
            keywords |-> << <<22766, 35266>>, <<38596, 20255>>, <<22766, 20029>>, <<38663, 25788>>,
               <<23439, 20255>> >>]
          >>
        \* element_keywords: 颜色 光线 阴影 纹理 形状 线条 构图 透视 对比 明暗
        element_keywords ==
          << <<39068, 33394>>, <<20809, 32447>>, <<38452, 24433>>, <<32441, 29702>>,
             <<24418, 29366>>, <<32447, 26465>>, <<26500, 22270>>, <<36879, 35270>>,
             <<23545, 27604>>, <<26126, 26263>> >>
        scene_hits == {k \in 1..Len(scene_keywords) :
                          ContainsAny(prompt_text, scene_keywords[k].keywords)}
        emotion_hits == {k \in 1..Len(emotion_keywords) :
                            ContainsAny(prompt_text, emotion_keywords[k].keywords)}
    IN  [scene_type |->
             IF scene_hits = {} THEN <<103, 101, 110, 101, 114, 97, 108>>
             ELSE scene_keywords[CHOOSE k \in scene_hits : \A j \in scene_hits : k <= j].scene_type,
         dominant_emotion |->
             IF emotion_hits = {} THEN <<110, 101, 117, 116, 114, 97, 108>>
             ELSE emotion_keywords[CHOOSE k \in emotion_hits : \A j \in emotion_hits : k <= j].emotion,
         visual_elements |->
             SelectSeq(element_keywords, LAMBDA element : Contains(prompt_text, element))]

\* _get_emotion_context(prompt_text, emotion): the words from two before to two after
\* the first whitespace-separated word that contains the emotion, joined by a space;
\* "" when no word contains it
GetEmotionContext(prompt_text, emotion) ==
    LET words == SplitWhitespace(prompt_text)
        hits  == {i \in 1..Len(words) : Contains(words[i], emotion)}
    IN  IF hits = {} THEN <<>>
        ELSE LET i == CHOOSE k \in hits : \A j \in hits : k <= j
                 first == IF i - 2 < 1 THEN 1 ELSE i - 2
                 last  == IF i + 2 > Len(words) THEN Len(words) ELSE i + 2
             IN  Join(<<32>>, SubSeq(words, first, last))

\* A Python float is modelled exactly.  Every value of the score computation is a
\* non-negative multiple of 2^-56 below 2^24, held as the integer value * 2^56 in
\* four limbs of 20 bits, lowest limb first.
\* RoundToDouble(n): the nearest double (53 significant bits, ties to even) of the
\* sum of limbs n, whose limbs may exceed 20 bits
RoundToDouble(n) ==
    LET Norm(v) ==
            LET t2 == v[2] + (v[1] \div 1048576)
                t3 == v[3] + (t2 \div 1048576)
            IN  << v[1] % 1048576, t2 % 1048576, t3 % 1048576, v[4] + (t3 \div 1048576) >>
        Bits(x) == CHOOSE b \in 0..30 : x < 2^b /\ (b = 0 \/ x >= 2^(b - 1))
        Length(m) == IF m[4] > 0 THEN 60 + Bits(m[4])
                     ELSE IF m[3] > 0 THEN 40 + Bits(m[3])
                     ELSE IF m[2] > 0 THEN 20 + Bits(m[2])
                     ELSE Bits(m[1])
        \* d: the number of bits below the 53 kept ones
        Rounded(m, d) ==
            LET r  == m[1] % (2^d)
                up == /\ d > 0
                      /\ \/ 2 * r > 2^d
                         \/ 2 * r = 2^d /\ (m[1] \div (2^d)) % 2 = 1
            IN  Norm(<< m[1] - r + (IF up THEN 2^d ELSE 0), m[2], m[3], m[4] >>)
        RoundNormalised(m) ==
            CHOOSE result \in {Rounded(m, d) :
                                  d \in {IF Length(m) > 53 THEN Length(m) - 53 ELSE 0}} : TRUE
    IN  \* the normalised limbs are computed once and bound before they are used
        CHOOSE result \in {RoundNormalised(m) : m \in {Norm(v) : v \in {n}}} : TRUE

\* x < y for two floats
FloatLess(x, y) ==
    \E i \in 1..4 : x[i] < y[i] /\ \A j \in (i + 1)..4 : x[j] = y[j]

\* keyword_score, semantic_score, emotion_score and ai_analysis_score of one theme.
\* position < len * 0.3 is 10 * position < 3 * len.  The context of a semantic word
\* is built by the same steps as _get_emotion_context builds the context of an emotion.
ThemeScoreParts(theme_data, prompt_text, analysis) ==
    LET keyword_score ==
            SumOf([k \in 1..Len(theme_data.keywords) |->
                LET keyword == theme_data.keywords[k]
                IN  IF Contains(prompt_text, keyword)
                    THEN 3
                         + (IF 10 * (IndexOf(prompt_text, keyword, 1) - 1) < 3 * Len(prompt_text)
                            THEN 1 ELSE 0)
                         + (IF Count(prompt_text, keyword, 1) - 1 < 2
                            THEN Count(prompt_text, keyword, 1) - 1 ELSE 2)
                    ELSE 0])
        semantic_score ==
            SumOf([k \in 1..Len(theme_data.semantic) |->
                LET semantic_word == theme_data.semantic[k]
                IN  IF Contains(prompt_text, semantic_word)
                    THEN 2 + (IF ContainsAny(GetEmotionContext(prompt_text, semantic_word),
                                             SubSeq(theme_data.keywords, 1, 5))
                              THEN 1 ELSE 0)
                    ELSE 0])
        emotion_score ==
            SumOf([k \in 1..Len(theme_data.emotions) |->
                LET emotion == theme_data.emotions[k]
                IN  IF Contains(prompt_text, emotion)
                    THEN 2 + (IF GetEmotionContext(prompt_text, emotion) # <<>> THEN 1 ELSE 0)
                    ELSE 0])
        scene_words == Split(analysis.scene_type, <<95>>)
        ai_analysis_score ==
            (IF \E k \in 1..Len(scene_words) : Contains(theme_data.theme, scene_words[k])
             THEN 3 ELSE 0)
            + (IF \E k \in 1..Len(theme_data.emotions) :
                     theme_data.emotions[k] = analysis.dominant_emotion
               THEN 2 ELSE 0)
            + Len(SelectSeq(analysis.visual_elements,
                            LAMBDA element :
                                \/ \E k \in 1..Len(theme_data.keywords) :
                                       theme_data.keywords[k] = element
                                \/ \E k \in 1..Len(theme_data.semantic) :
                                       theme_data.semantic[k] = element))
    IN  << keyword_score, semantic_score, emotion_score, ai_analysis_score >>

\* total_score = keyword_score * 0.4 + semantic_score * 0.3 + emotion_score * 0.2
\*               + ai_analysis_score * 0.1, in float arithmetic, left to right.
\* The limbs are those of the doubles 0.4, 0.3, 0.2 and 0.1.
ThemeScore(theme_data, prompt_text, analysis) ==
    LET Times(k, w) == RoundToDouble([i \in 1..4 |-> k * w[i]])
        Plus(x, y)  == RoundToDouble([i \in 1..4 |-> x[i] + y[i]])
        Total(parts) ==
            Plus(Plus(Plus(Times(parts[1], <<419432, 419430, 26214, 0>>),
                           Times(parts[2], <<838860, 838860, 19660, 0>>)),
                      Times(parts[3], <<209716, 209715, 13107, 0>>)),
                 Times(parts[4], <<629146, 629145, 6553, 0>>))
    IN  CHOOSE total_score \in
            {Total(parts) : parts \in {ThemeScoreParts(theme_data, prompt_text, analysis)}} : TRUE

\* theme_scores, one entry per theme of the table, in table order
ThemeScores(prompt_text) ==
    LET ai_description_analysis == AnalyzeAiDescription(prompt_text)
    IN  [k \in 1..Len(enhanced_theme_mapping) |->
            ThemeScore(enhanced_theme_mapping[k], prompt_text, ai_description_analysis)]

\* _get_intelligent_default_theme(prompt_text)
GetIntelligentDefaultTheme(prompt_text) ==
    \* ['自然', '风景', '户外', '天空', '云']
    IF ContainsAny(prompt_text, << <<33258, 28982>>, <<39118, 26223>>, <<25143, 22806>>,
                                   <<22825, 31354>>, <<20113>> >>)
    THEN <<110, 97, 116, 117, 114, 101, 95, 115, 107, 121>>
    \* ['城市', '建筑', '现代', '都市']
    ELSE IF ContainsAny(prompt_text, << <<22478, 24066>>, <<24314, 31569>>,
                                        <<29616, 20195>>, <<37117, 24066>> >>)
    THEN <<99, 105, 116, 121, 95, 109, 111, 100, 101, 114, 110>>
    \* ['动物', '宠物', '可爱']
    ELSE IF ContainsAny(prompt_text, << <<21160, 29289>>, <<23456, 29289>>,
                                        <<21487, 29233>> >>)
    THEN <<97, 110, 105, 109, 97, 108, 95, 112, 101, 116>>
    \* ['食物', '美食', '料理']
    ELSE IF ContainsAny(prompt_text, << <<39135, 29289>>, <<32654, 39135>>,
                                        <<26009, 29702>> >>)
    THEN <<108, 105, 102, 101, 115, 116, 121, 108, 101, 95, 102, 111, 111, 100>>
    ELSE <<110, 97, 116, 117, 114, 101, 95, 115, 107, 121>>

\* selected_theme with the comparison turned round: the first theme, in table order,
\* whose score is the smallest
SelectedThemeLowestScore(prompt_text) ==
    LET theme_scores == ThemeScores(prompt_text)
    IN  enhanced_theme_mapping[
            CHOOSE k \in 1..Len(theme_scores) :
                /\ \A j \in 1..Len(theme_scores) : ~FloatLess(theme_scores[j], theme_scores[k])
                /\ \A j \in 1..(k - 1) : FloatLess(theme_scores[k], theme_scores[j])].theme

\* selected_theme: theme_scores has an entry for every theme of the table, so the
\* branch `if theme_scores:` is the one taken when the table is not empty, and
\* max(theme_scores.items(), key=...) is the first theme, in table order, whose
\* score is the largest
SelectedTheme(prompt_text) ==
    LET theme_scores == ThemeScores(prompt_text)
    IN  IF Len(theme_scores) > 0
        THEN enhanced_theme_mapping[
                 CHOOSE k \in 1..Len(theme_scores) :
                     /\ \A j \in 1..Len(theme_scores) : ~FloatLess(theme_scores[k], theme_scores[j])
                     /\ \A j \in 1..(k - 1) : FloatLess(theme_scores[j], theme_scores[k])].theme
        ELSE GetIntelligentDefaultTheme(prompt_text)

\* theme_images: the pool of the selected theme, the nature_sky pool when it has none
ThemeImages(selected_theme) ==
    LET own == {k \in 1..Len(xiaohongshu_images) : xiaohongshu_images[k].theme = selected_theme}
        sky == {k \in 1..Len(xiaohongshu_images) : xiaohongshu_images[k].theme = <<110, 97, 116, 117, 114, 101, 95, 115, 107, 121>>}
    IN  xiaohongshu_images[CHOOSE k \in (IF own # {} THEN own ELSE sky) : TRUE].images

\* _generate_demo_image with an image index taken from the segment id alone
GenerateDemoImageBySegmentId(prompt, segment_id) ==
    LET theme_images == ThemeImages(SelectedTheme(Lower(prompt)))
    IN  theme_images[(segment_id % Len(theme_images)) + 1]

\* _generate_demo_image with an image index that counts the calls made so far
GenerateDemoImageRoundRobin(prompt, segment_id) ==
    LET theme_images == ThemeImages(SelectedTheme(Lower(prompt)))
    IN  theme_images[(Len(demo_log) % Len(theme_images)) + 1]

\* _generate_demo_image(prompt, segment_id): the element of the selected theme's
\* pool at image_index =
\* int(md5(f"{prompt}_{segment_id}".encode('utf-8')).hexdigest(), 16) % len(theme_images)
GenerateDemoImage(prompt, segment_id) ==
    LET theme_images == ThemeImages(SelectedTheme(Lower(prompt)))
        hash_input   == Utf8(prompt \o <<95>> \o Decimal(segment_id))
        image_index  == BigEndianMod(Md5Digest(hash_input), 1, 0, Len(theme_images))
    IN  theme_images[image_index + 1]

-----------------------------------------------------------------------------
(* Calls of _generate_demo_image, one after another, on one service object.   *)

MaxDemoCalls == 3

\* the (prompt, segment_id) pairs the calls are made with:
\* '山', 'ABC 唯美的山', 'abc', '海边的咖啡山' and '无垠沉静'
DemoCalls ==
    { << <<23665>>, 1 >>, << <<23665>>, 2 >>,
      << <<65, 66, 67, 32, 21807, 32654, 30340, 23665>>, 7 >>,
      << <<97, 98, 99>>, 1 >>,
      << <<28023, 36793, 30340, 21654, 21857, 23665>>, 3 >>,
      << <<26080, 22432, 27785, 38745>>, 1 >> }

InitDemo ==
    /\ pc = "call"
    /\ text = <<>>
    /\ text_type = <<>>
    /\ style_prompt = <<>>
    /\ max_segments = 10
    /\ service_type = "demo"
    /\ started = {}
    /\ seg_result = NoResult
    /\ prompt_result = <<>>
    /\ client = FALSE
    /\ llm = NoLLM
    /\ segments = <<>>
    /\ response = NoResponse
    /\ images = <<>>
    /\ sent_prompts = <<>>
    /\ content_analysis = NoCoreInfo
    /\ unified_style = <<>>
    /\ demo_log = <<>>
    /\ backend_outcomes = <<>>
    /\ compose_outcomes = <<>>
    /\ truncate_max_length = 0
    /\ truncated = <<>>
    /\ theme_analysis = <<>>

\* what _generate_demo_image(prompt, segment_id) returns for each of the calls
DemoImageUrls == [call \in DemoCalls |-> GenerateDemoImage(call[1], call[2])]

\* one call _generate_demo_image(prompt, segment_id): it reads its two arguments and
\* the tables it builds itself, assigns no attribute and no global, and returns the
\* selected image; demo_log keeps the arguments and the result of every call made
GenerateDemoImageCall ==
    /\ pc = "call"
    /\ Len(demo_log) < MaxDemoCalls
    /\ \E call \in DemoCalls :
           demo_log' = Append(demo_log,
                              [prompt |-> call[1], segment_id |-> call[2],
                               image_url |-> DemoImageUrls[call]])
    /\ UNCHANGED <<truncate_max_length, truncated, theme_analysis, compose_outcomes, content_analysis, unified_style, backend_outcomes, pc, text, text_type,
                   style_prompt, max_segments, client, service_type, started,
                   seg_result, prompt_result, llm, segments, response, images,
                   sent_prompts>>

SpecDemo == InitDemo /\ [][GenerateDemoImageCall]_vars

C15_AllZeroUsesDefaultTheme ==
    demo_log # <<>> =>
        LET prompt_text == Lower(demo_log[Len(demo_log)].prompt)
            theme_scores == ThemeScores(prompt_text)
            default_images == ThemeImages(GetIntelligentDefaultTheme(prompt_text))
        IN  (\A k \in 1..Len(theme_scores) : theme_scores[k] = <<0, 0, 0, 0>>)
            => /\ SelectedTheme(prompt_text) = GetIntelligentDefaultTheme(prompt_text)
               /\ \E n \in 1..Len(default_images) : demo_log[Len(demo_log)].image_url = default_images[n]

\* keyword occurs in prompt_text and no other keyword, semantic word or emotion word
\* of any theme does
OnlyKeyword(prompt_text, keyword) ==
    /\ Contains(prompt_text, keyword)
    /\ \A k \in 1..Len(enhanced_theme_mapping) :
           LET theme_data == enhanced_theme_mapping[k]
               theme_words == theme_data.keywords \o theme_data.semantic \o theme_data.emotions
           IN  \A n \in 1..Len(theme_words) :
                   theme_words[n] # keyword => ~Contains(prompt_text, theme_words[n])

\* C16: for a prompt whose only theme word is 山, nature_mountain scores strictly
\* higher than every other theme and the URL is a member of the nature_mountain pool
C16_MountainOnlyWins ==
    (demo_log # <<>> /\ OnlyKeyword(Lower(demo_log[Len(demo_log)].prompt), <<23665>>)) =>
        LET theme_scores == ThemeScores(Lower(demo_log[Len(demo_log)].prompt))
            mountain == CHOOSE k \in 1..Len(enhanced_theme_mapping) :
                            enhanced_theme_mapping[k].theme = <<110, 97, 116, 117, 114, 101, 95, 109, 111, 117, 110, 116, 97, 105, 110>>
            pool == CHOOSE k \in 1..Len(xiaohongshu_images) :
                        xiaohongshu_images[k].theme = <<110, 97, 116, 117, 114, 101, 95, 109, 111, 117, 110, 116, 97, 105, 110>>
        IN  /\ \A k \in 1..Len(theme_scores) :
                   k # mountain => FloatLess(theme_scores[k], theme_scores[mountain])
            /\ \E n \in 1..Len(xiaohongshu_images[pool].images) :
                   demo_log[Len(demo_log)].image_url = xiaohongshu_images[pool].images[n]

\* a call whose prompt has 山 as its only theme word while another theme has a
\* score above 0
C16_Witness ==
    /\ demo_log # <<>>
    /\ OnlyKeyword(Lower(demo_log[Len(demo_log)].prompt), <<23665>>)
    /\ demo_log[Len(demo_log)].segment_id = 7
    /\ \E k \in 2..Len(enhanced_theme_mapping) :
           ThemeScores(Lower(demo_log[Len(demo_log)].prompt))[k] # <<0, 0, 0, 0>>

\* C17: every theme has its own pool of exactly 5 URLs, and the URL returned is the
\* element of the selected theme's own pool at index MD5(prompt + "_" + segment_id) mod 5
C17_OwnPoolAtMd5Index ==
    /\ \A k \in 1..Len(enhanced_theme_mapping) :
           \E n \in 1..Len(xiaohongshu_images) :
               /\ xiaohongshu_images[n].theme = enhanced_theme_mapping[k].theme
               /\ Len(xiaohongshu_images[n].images) = 5
    /\ demo_log # <<>> =>
           LET selected_theme == SelectedTheme(Lower(demo_log[Len(demo_log)].prompt))
               own == CHOOSE n \in 1..Len(xiaohongshu_images) :
                          xiaohongshu_images[n].theme = selected_theme
               hash_input == Utf8(demo_log[Len(demo_log)].prompt \o <<95>>
                                  \o Decimal(demo_log[Len(demo_log)].segment_id))
               image_index == BigEndianMod(Md5Digest(hash_input), 1, 0, 5)
           IN  /\ xiaohongshu_images[own].theme = selected_theme
               /\ ThemeImages(selected_theme) = xiaohongshu_images[own].images
               /\ image_index \in 0..4
               /\ demo_log[Len(demo_log)].image_url = xiaohongshu_images[own].images[image_index + 1]

\* a call whose selected theme is nature_ocean and whose image index is not 0
C17_Witness ==
    /\ demo_log # <<>>
    /\ SelectedTheme(Lower(demo_log[Len(demo_log)].prompt)) = <<110, 97, 116, 117, 114, 101, 95, 111, 99, 101, 97, 110>>
    /\ demo_log[Len(demo_log)].image_url = ThemeImages(<<110, 97, 116, 117, 114, 101, 95, 111, 99, 101, 97, 110>>)[2]

-----------------------------------------------------------------------------
(* The fallbacks of the two endpoints, under Spec. *)

\* the segments returned after a failed LLM call are the local ones: one per chunk,
\* in chunk order, ids 1..n, summary and image_prompt from the local generators
FallbackSegmentsAreLocal ==
    (pc \in {"respond", "responded"} /\ client /\ llm.kind \in {"raises", "not_json"}) =>
        /\ Len(segments) = Len(seg_result.value)
        /\ \A i \in 1..Len(segments) :
               /\ segments[i].id = i
               /\ segments[i].content = seg_result.value[i]
               /\ segments[i].summary = GenerateLocalSummary(seg_result.value[i], i, text_type)
               /\ segments[i].image_prompt =
                      GenerateXiaohongshuPrompt(seg_result.value[i], EffectiveStylePrompt,
                                                text_type)

C19_FailureGetsDemoImage ==
    \A k \in 1..Len(images) :
        backend_outcomes[k] \in {"empty", "raises"} =>
            LET segment == segments[k]
                demo_urls == { DemoImageUrl(prompt, segment.id) :
                                   prompt \in { segment.image_prompt,
                                                DemoPrompt(segment, style_prompt),
                                                CombinedPrompt(style_prompt, segment) } }
            IN  \/ images[k].image_url \in demo_urls
                \/ /\ images[k].image_url.kind = "data_uri"
                   /\ images[k].image_url.image_url \in demo_urls

\* C20: generate_images_with_seedream returns one GeneratedImage per requested
\* segment, in request order, the k-th with the k-th segment's id and the status
\* completed or failed, for every pattern of failures of the backend and of the
\* compositor; a failed segment does not stop the ones after it
C20_OneImagePerSegment ==
    /\ pc \in {"images", "images_responded"} =>
           /\ Len(images) <= Len(segments)
           /\ \A k \in 1..Len(images) :
                  /\ images[k].segment_id = segments[k].id
                  /\ images[k].status \in {"completed", "failed"}
    /\ (pc = "images_responded" /\ segments # <<>>) =>
           /\ response.status = 200
           /\ response.images = images
           /\ Len(images) = Len(segments)

\* the backend failed for the first of two segments and the second was processed
C20_Witness ==
    /\ pc = "images_responded"
    /\ Len(segments) = 2
    /\ Len(images) = 2
    /\ backend_outcomes[1] = "raises"
    /\ images[1].status = "failed"
    /\ images[2].status = "completed"
    /\ images[2].segment_id = segments[2].id


-----------------------------------------------------------------------------
(* compose_image_text inside generate_images_with_seedream *)

\* the URL handed to compose_image_text for the k-th segment of a request served
\* without a client
OriginalImageUrl(k) ==
    GenerateImageUrl(service_type, DemoPrompt(segments[k], style_prompt),
                     segments[k].id, backend_outcomes[k] = "data")

\* C21: a call of compose_image_text in which a step failed (download, status,
\* decoding, drawing, encoding) raises nothing and returns exactly the image_url
\* it was given; it returns a data URI only when no step failed.
C21_FailedStepReturnsGivenUrl ==
    \A k \in 1..Len(compose_outcomes) :
        /\ k <= Len(images)
        /\ images[k].status = "completed"
        /\ images[k].segment_id = segments[k].id
        /\ compose_outcomes[k] # "none" => images[k].image_url = OriginalImageUrl(k)
        /\ images[k].image_url.kind = "data_uri" <=> compose_outcomes[k] = "none"
        /\ compose_outcomes[k] = "none" =>
              images[k].image_url = ComposedDataUri(OriginalImageUrl(k),
                                        segments[k].content, segments[k].summary)

\* a request in which one composition failed while drawing and another succeeded
C21_Witness ==
    /\ pc = "images_responded"
    /\ Len(compose_outcomes) = 2
    /\ compose_outcomes[1] = "draw"
    /\ compose_outcomes[2] = "none"
    /\ images[1].image_url = OriginalImageUrl(1)
    /\ images[2].image_url.kind = "data_uri"


-----------------------------------------------------------------------------
(* The content branch of _determine_unified_style, under SpecStyle. *)

C30_ContentNeverLiteraryRetro ==
    /\ content_analysis = ExtractArticleCoreInfo(text)
    /\ content_analysis.atmosphere # <<>>
    /\ Len(atmosphere_words) = 11
    /\ content_analysis.atmosphere \in
          { atmosphere_words[i] : i \in 1..Len(atmosphere_words) }
              \cup { <<31616, 32422>>, <<28165, 26032>>, <<28201, 39336>>, <<33258, 28982>> }
    /\ ~Contains(content_analysis.atmosphere, <<25991, 33402>>)
    /\ ~Contains(content_analysis.atmosphere, <<24576, 26087>>)
    /\ (pc = "returned" /\ style_prompt \in {<<>>, DefaultStylePrompt})
          => unified_style # <<25991, 33402, 22797, 21476>>
    \* _build_visual_description: _determine_unified_style(core_info, "", "")
    /\ DetermineUnifiedStyle(content_analysis, <<>>, <<>>) # <<25991, 33402, 22797, 21476>>
    /\ ~Contains(BuildVisualDescription(BuildVisualElements(content_analysis, text_type),
                                        content_analysis),
                 STYLE_TEMPLATES[<<25991, 33402, 22797, 21476>>].color_palette)
    \* _build_detail_supplements: _determine_unified_style(core_info, text_type, "")
    /\ DetermineUnifiedStyle(content_analysis, text_type, <<>>) # <<25991, 33402, 22797, 21476>>
    /\ ~Contains(BuildDetailSupplements(content_analysis, text_type),
                 STYLE_TEMPLATES[<<25991, 33402, 22797, 21476>>].texture)

\* the resolver was called with the default hint on a text that holds both 怀旧
\* and 文艺, and returned another style than 文艺复古
C30_Witness ==
    /\ pc = "returned"
    /\ style_prompt = DefaultStylePrompt
    /\ Contains(text, <<24576, 26087>>)
    /\ Contains(text, <<25991, 33402>>)
    /\ unified_style # <<25991, 33402, 22797, 21476>>
    /\ unified_style = DetermineUnifiedStyle(ExtractArticleCoreInfo(text), text_type, style_prompt)


-----------------------------------------------------------------------------
(* The text-type tag in the prompt composer, under SpecPrompt. *)

\* C28: for a fixed segment text and style hint the composer returns the same
\* string for each of the tags narrative, argumentative and descriptive, and the
\* type-specific (last) item of the detail section is 视觉美感 for all three.
C28_TagHasNoEffect ==
    pc = "returned" =>
        \A tag \in {narrative, argumentative, descriptive} :
            /\ GenerateXiaohongshuPrompt(text, style_prompt, tag) = prompt_result
            /\ LET detail == BuildDetailSupplements(ExtractArticleCoreInfo(text), tag)
                   items  == Split(detail, <<65292>>)
               \* details[3] is template["texture"], itself two items
               IN  /\ Len(items) = 5
                   /\ items[5] = <<35270, 35273, 32654, 24863>>

\* the composer returned, for the tag narrative, the prompt it returns for the tag
\* descriptive, and the untruncated detail section ends the prompt with 视觉美感
C28_Witness ==
    /\ pc = "returned"
    /\ text_type = narrative
    /\ prompt_result = GenerateXiaohongshuPrompt(text, style_prompt, descriptive)
    /\ Len(prompt_result) > 4
    /\ SubSeq(prompt_result, Len(prompt_result) - 3, Len(prompt_result)) = <<35270, 35273, 32654, 24863>>


-----------------------------------------------------------------------------
(* The parsed LLM answer in analyze_text_with_doubao, under Spec. *)

-----------------------------------------------------------------------------
(* The even split and the paragraph loops of _smart_segment_text, under SpecSeg. *)

\* C23: when primary segmentation yields fewer than 2 or more than 8 chunks, the
\* result is exactly target = min(5, max(3, len(text) // 800)) slices of equal
\* length, for every text length, multiples of target or not.
C23_FallbackGivesTargetEqualSlices ==
    ( /\ pc = "returned"
      /\ \/ Len(PrimarySegments(text, text_type)) < 2
         \/ Len(PrimarySegments(text, text_type)) > 8 )
    => /\ ~seg_result.raised
       /\ Len(seg_result.value) = TargetSegments(Len(text))
       /\ \A i, j \in 1..Len(seg_result.value) :
             Len(seg_result.value[i]) = Len(seg_result.value[j])


RECURSIVE LoopState(_, _, _)
\* segments and current_segment after the first k iterations of `for para in paragraphs`
LoopState(paragraphs, k, ttype) ==
    IF k = 0 THEN [segments |-> <<>>, current_segment |-> <<>>]
    ELSE LET acc == LoopState(paragraphs, k - 1, ttype)
         IN  IF ttype = narrative THEN NarrativeStep(acc, paragraphs[k])
             ELSE IF ttype = argumentative
                  THEN MarkerStep(acc, paragraphs[k], argument_markers, 1500)
                  ELSE MarkerStep(acc, paragraphs[k], dimension_markers, 1200)

\* C24: in the paragraph loop of each of the three text types, an iteration that
\* flushes (marker keyword with the accumulated chunk over the minimum, or the
\* maximum exceeded) emits a chunk that does not contain the incoming paragraph,
\* and the incoming paragraph is the first paragraph of the next chunk.
C24_FlushExcludesTriggeringParagraph ==
    pc = "returned" =>
        LET paragraphs == Split(text, ParagraphBreak)
        IN  \A k \in 1..Len(paragraphs) :
                LET before == LoopState(paragraphs, k - 1, text_type)
                    after  == LoopState(paragraphs, k, text_type)
                IN  after.segments # before.segments =>
                        /\ after.segments = Append(before.segments, Strip(before.current_segment))
                        /\ after.current_segment = paragraphs[k]


-----------------------------------------------------------------------------
(* The selection of the theme, under SpecDemo. *)

\* C27: _generate_demo_image selects the theme whose total score, equivalently the
\* integer 4k + 3s + 2e + a, is maximal over the theme table, and among the themes
\* that share the maximum the one that comes first in the table.
C27_FirstThemeOfMaximalIntegerScore ==
    demo_log # <<>> =>
        LET prompt_text == Lower(demo_log[Len(demo_log)].prompt)
            analysis    == AnalyzeAiDescription(prompt_text)
            integer_scores ==
                [k \in 1..Len(enhanced_theme_mapping) |->
                    LET parts == ThemeScoreParts(enhanced_theme_mapping[k], prompt_text, analysis)
                    IN  4 * parts[1] + 3 * parts[2] + 2 * parts[3] + parts[4]]
            first == CHOOSE k \in 1..Len(integer_scores) :
                         /\ \A j \in 1..Len(integer_scores) : integer_scores[j] <= integer_scores[k]
                         /\ \A j \in 1..(k - 1) : integer_scores[j] < integer_scores[k]
            first_images == ThemeImages(enhanced_theme_mapping[first].theme)
        IN  /\ SelectedTheme(prompt_text) = enhanced_theme_mapping[first].theme
            /\ \E n \in 1..Len(first_images) :
                   demo_log[Len(demo_log)].image_url = first_images[n]


-----------------------------------------------------------------------------
(* _analyze_text_content and _truncate_text as functions of their arguments,  *)
(* under SpecText.                                                            *)

\* theme_keywords of _analyze_text_content, in the order of the dict
theme_keywords ==
    << \* '自然风光'
       [ theme |-> <<33258, 28982, 39118, 20809>>,
         keywords |-> << <<23665>>, <<28023>>, <<28246>>, <<27827>>, <<26862, 26519>>,
       <<26641>>, <<33457>>, <<33609>>, <<22825, 31354>>, <<20113>>,
       <<38451, 20809>>, <<26376, 20142>>, <<26143, 26143>>, <<38632>>,
       <<38634>>, <<39118, 26223>>, <<33258, 28982>>, <<25143, 22806>> >> ],
       \* '都市生活'
       [ theme |-> <<37117, 24066, 29983, 27963>>,
         keywords |-> << <<22478, 24066>>, <<34903, 36947>>, <<24314, 31569>>,
       <<39640, 27004>>, <<21830, 24215>>, <<21654, 21857, 21381>>,
       <<39184, 21381>>, <<21150, 20844, 23460>>, <<22320, 38081>>,
       <<20844, 20132>>, <<36710>>, <<39532, 36335>>, <<28783, 20809>>,
       <<22812, 26223>> >> ],
       \* '人物情感'
       [ theme |-> <<20154, 29289, 24773, 24863>>,
         keywords |-> << <<20154>>, <<22899, 23401>>, <<30007, 23401>>, <<26379, 21451>>,
       <<23478, 20154>>, <<24651, 20154>>, <<23401, 23376>>,
       <<32769, 20154>>, <<24494, 31505>>, <<25317, 25265>>,
       <<30524, 31070>>, <<34920, 24773>>, <<25163, 21183>> >> ],
       \* '学习工作'
       [ theme |-> <<23398, 20064, 24037, 20316>>,
         keywords |-> << <<23398, 20064>>, <<24037, 20316>>, <<20070>>, <<31508>>,
       <<30005, 33041>>, <<25163, 26426>>, <<21150, 20844>>,
       <<20250, 35758>>, <<24605, 32771>>, <<20889, 20316>>,
       <<38405, 35835>>, <<30740, 31350>>, <<39033, 30446>> >> ],
       \* '美食生活'
       [ theme |-> <<32654, 39135, 29983, 27963>>,
         keywords |-> << <<39135, 29289>>, <<32654, 39135>>, <<21654, 21857>>, <<33590>>,
       <<34507, 31957>>, <<38754, 21253>>, <<27700, 26524>>,
       <<34092, 33756>>, <<26009, 29702>>, <<28921, 39274>>,
       <<39184, 20855>>, <<21416, 25151>>, <<21619, 36947>> >> ],
       \* '旅行探索'
       [ theme |-> <<26053, 34892, 25506, 32034>>,
         keywords |-> << <<26053, 34892>>, <<26053, 28216>>, <<25506, 32034>>,
       <<20882, 38505>>, <<36335>>, <<22320, 22270>>, <<32972, 21253>>,
       <<30456, 26426>>, <<26223, 28857>>, <<25991, 21270>>,
       <<20307, 39564>>, <<21457, 29616>> >> ],
       \* '艺术创作'
       [ theme |-> <<33402, 26415, 21019, 20316>>,
         keywords |-> << <<33402, 26415>>, <<30011>>, <<38899, 20048>>, <<21019, 20316>>,
       <<35774, 35745>>, <<33394, 24425>>, <<32447, 26465>>,
       <<26500, 22270>>, <<28789, 24863>>, <<32654, 24863>>,
       <<21019, 24847>>, <<34920, 36798>> >> ],
       \* '运动健康'
       [ theme |-> <<36816, 21160, 20581, 24247>>,
         keywords |-> << <<36816, 21160>>, <<20581, 36523>>, <<36305, 27493>>,
       <<28216, 27891>>, <<29788, 20285>>, <<20581, 24247>>,
       <<27963, 21147>>, <<27735, 27700>>, <<22362, 25345>>,
       <<25361, 25112>>, <<30446, 26631>>, <<25104, 23601>> >> ] >>

\* _analyze_text_content with max() taking the last of the largest scores
AnalyzeTextContentLastMaximum(t) ==
    LET score(k) == Len(SelectSeq(theme_keywords[k].keywords, LAMBDA keyword : Contains(t, keyword)))
        scored   == {k \in 1..Len(theme_keywords) : score(k) > 0}
    IN  [ main_theme |->
              IF scored # {}
              THEN theme_keywords[CHOOSE k \in scored :
                                      /\ \A j \in scored : score(j) <= score(k)
                                      /\ \A j \in scored : j > k => score(j) < score(k)].theme
              ELSE <<>> ]

\* _analyze_text_content(text): the field main_theme of the returned dict.
\* theme_scores holds, in table order, the themes with a score above 0;
\* max(theme_scores.items(), key=lambda x: x[1]) is the first of the largest ones
AnalyzeTextContent(t) ==
    LET score(k) == Len(SelectSeq(theme_keywords[k].keywords, LAMBDA keyword : Contains(t, keyword)))
        scored   == {k \in 1..Len(theme_keywords) : score(k) > 0}
    IN  [ main_theme |->
              IF scored # {}
              THEN theme_keywords[CHOOSE k \in scored :
                                      /\ \A j \in scored : score(j) <= score(k)
                                      /\ \A j \in scored : j < k => score(j) < score(k)].theme
              ELSE <<>> ]

\* longest enumerated text made of 'x', '，' and '。'
MaxMarkLen == 6
\* largest number of fragments of an enumerated text with theme keywords
MaxThemeFrags == 2
\* largest enumerated max_length
MaxTruncateLength == 5

InitText ==
    /\ pc = "call"
    /\ text \in
          \* every text of 'x', '，' and '。'
          UNION {[1..n -> {120, 65292, 12290}] : n \in 1..MaxMarkLen}
          \* 'xx、xxx'
          \cup { <<120, 120, 12289, 120, 120, 120>> }
          \* texts made of '山', '城市', '街道', '人', '旅行' and 'abc'
          \cup { Concat(fs) : fs \in UNION {[1..n -> { <<23665>>, <<22478, 24066>>, <<34903, 36947>>, <<20154>>, <<26053, 34892>>, <<97, 98, 99>> }] :
                                             n \in 1..MaxThemeFrags} }
    /\ truncate_max_length \in 1..MaxTruncateLength
    /\ text_type = <<>>
    /\ style_prompt = <<>>
    /\ max_segments = 10
    /\ service_type = "demo"
    /\ started = {}
    /\ seg_result = NoResult
    /\ prompt_result = <<>>
    /\ client = FALSE
    /\ llm = NoLLM
    /\ segments = <<>>
    /\ response = NoResponse
    /\ images = <<>>
    /\ sent_prompts = <<>>
    /\ content_analysis = NoCoreInfo
    /\ unified_style = <<>>
    /\ demo_log = <<>>
    /\ backend_outcomes = <<>>
    /\ compose_outcomes = <<>>
    /\ truncated = <<>>
    /\ theme_analysis = <<>>

\* the call _analyze_text_content(text)
AnalyzeTextContentCall ==
    /\ pc = "call"
    /\ theme_analysis' = AnalyzeTextContent(text)
    /\ pc' = "analyzed"
    /\ UNCHANGED <<truncate_max_length, truncated, compose_outcomes, content_analysis,
                   unified_style, demo_log, backend_outcomes, text, text_type,
                   style_prompt, max_segments, client, service_type, started,
                   seg_result, prompt_result, llm, segments, response, images,
                   sent_prompts>>

\* the call _truncate_text(text, max_length)
TruncateTextCall ==
    /\ pc = "call"
    /\ truncated' = TruncateText(text, truncate_max_length)
    /\ pc' = "truncated"
    /\ UNCHANGED <<truncate_max_length, theme_analysis, compose_outcomes, content_analysis,
                   unified_style, demo_log, backend_outcomes, text, text_type,
                   style_prompt, max_segments, client, service_type, started,
                   seg_result, prompt_result, llm, segments, response, images,
                   sent_prompts>>

SpecText == InitText /\ [][AnalyzeTextContentCall \/ TruncateTextCall]_vars

C25_CutsAtNearestMarkInPrefix ==
    pc = "truncated" =>
        LET marks == {i \in 0..(truncate_max_length - 1) :
                         i < Len(text) /\ text[i + 1] \in {65292, 12290, 12289}}
        IN  /\ Len(truncated) <= truncate_max_length
            /\ truncated = SubSeq(text, 1, Len(truncated))
            /\ Len(text) <= truncate_max_length => truncated = text
            /\ (Len(text) > truncate_max_length /\ marks # {}) =>
                   Len(truncated) = CHOOSE i \in marks : \A j \in marks : j <= i
            /\ (Len(text) > truncate_max_length /\ marks = {}) =>
                   Len(truncated) = truncate_max_length

\* C25 (amended): the marks that count are those at an index above max_length // 2
\* and below max_length; the text is cut just before the last of them, and at
\* exactly max_length characters when there is none.
C25_CutsAtNearestMarkInSecondHalf ==
    pc = "truncated" =>
        LET marks == {i \in 0..(truncate_max_length - 1) :
                         /\ i < Len(text)
                         /\ i > truncate_max_length \div 2
                         /\ text[i + 1] \in {65292, 12290, 12289}}
        IN  /\ Len(truncated) <= truncate_max_length
            /\ truncated = SubSeq(text, 1, Len(truncated))
            /\ Len(text) <= truncate_max_length => truncated = text
            /\ (Len(text) > truncate_max_length /\ marks # {}) =>
                   Len(truncated) = CHOOSE i \in marks : \A j \in marks : j <= i
            /\ (Len(text) > truncate_max_length /\ marks = {}) =>
                   Len(truncated) = truncate_max_length

\* _truncate_text('x，xxxx', 5) returned 'x，xxx': the only mark is at index 1, not
\* above 5 // 2, and the text is cut at exactly 5 characters
C25_Witness ==
    /\ pc = "truncated"
    /\ text = <<120, 65292, 120, 120, 120, 120>>
    /\ truncate_max_length = 5
    /\ truncated = <<120, 65292, 120, 120, 120>>

====
